---- MODULE Spec2Model ----
(***************************************************************************)
(* Election data REST API (chunavmantra-backend): the booth and            *)
(* booth-analysis route handlers, the SQL they run against the election    *)
(* tables, and the error-handling middleware.                              *)
(*                                                                         *)
(* Numbers: a percentage is an integer number of hundredths of a percent   *)
(* (65.00 % is 6500), which is exactly what ROUND(x, 2) can produce.       *)
(* SQL NULL is the value NULL; a division by zero inside a statement is    *)
(* the value DivFault, which makes the statement fail.                     *)
(***************************************************************************)
EXTENDS Integers, Sequences, FiniteSets, TLC

\* ------------------------------------------------------------------------
\* Bounds of the model
\* ------------------------------------------------------------------------
MaxBooths == 2

\* the longest list of rows a computation is applied to in SpecCalc
MaxPoints == 3

\* the signals and uncaught errors a run delivers to the process
MaxSignals == 2

\* ------------------------------------------------------------------------
\* SQL values and scalar functions
\* ------------------------------------------------------------------------
NULL == -1
DivFault == -2

electionId == 1

COALESCE(x, d) == IF x = NULL THEN d ELSE x

NULLIF(a, b) == IF a = NULL THEN NULL ELSE IF a = b THEN NULL ELSE a

\* x > 0 in a WHEN: NULL > 0 is not true
IsPositive(x) == x # NULL /\ x > 0

\* ROUND((n * 100.0 / d)::numeric, 2) in hundredths, half away from zero,
\* for n, d >= 0; NULL operands give NULL, a zero divisor is a fault
RoundPct(n, d) ==
    IF n = NULL \/ d = NULL THEN NULL
    ELSE IF d = 0 THEN DivFault
    ELSE (2 * n * 10000 + d) \div (2 * d)

\* CASE WHEN e > 0 THEN ROUND((n * 100.0 / e)::numeric, 2) ELSE 0 END
GuardedPct(n, e) == IF IsPositive(e) THEN RoundPct(n, e) ELSE 0

\* ROUND((COALESCE(n, 0) * 100.0 / NULLIF(e, 0)), 2)
NullifPct(n, e) == RoundPct(COALESCE(n, 0), NULLIF(e, 0))

\* ROUND((COALESCE(n, 0) * 100.0 / NULLIF(e, 1))::numeric, 2)
NullifOnePct(n, e) == RoundPct(COALESCE(n, 0), NULLIF(e, 1))

\* ------------------------------------------------------------------------
\* The election tables
\* ------------------------------------------------------------------------
Booths == 1 .. MaxBooths

AcIds == {1, 2}

Candidates == {1, 2}

\* candidates JOIN parties: the party of each candidate
PartyOf(c) == IF c = 1 THEN "PartyA" ELSE "PartyB"

\* booth_number is text in the table and is cast to integer to sort
BoothNumber(b) == MaxBooths + 1 - b

\* a booth_turnout row of election 1; the columns of a missing row are NULL,
\* as a LEFT JOIN delivers them
Turnout(electors, cast, male, female) ==
    [total_electors |-> electors, total_votes_cast |-> cast, male_voters |-> male,
     female_voters |-> female]

NoTurnout == Turnout(NULL, NULL, NULL, NULL)

\* votes_secured of candidates 1 and 2 in one booth; NULL is no booth_results row
Results(v1, v2) == [c \in Candidates |-> IF c = 1 THEN v1 ELSE v2]

RECURSIVE SumOver(_, _)
SumOver(f, S) ==
    IF S = {} THEN 0
    ELSE LET x == CHOOSE y \in S : TRUE
         IN  f[x] + SumOver(f, S \ {x})

\* the booths a table can hold: a booth without turnout row and results, a
\* booth without electors, a booth with a clear winner, a booth with a tie, a
\* large booth with low turnout and one candidate, and a booth whose results
\* are loaded but whose turnout row is not
BoothData ==
    { <<NoTurnout, Results(NULL, NULL)>>,
      <<Turnout(0, 0, 0, 0), Results(NULL, NULL)>>,
      <<Turnout(1000, 650, 520, 480), Results(400, 250)>>,
      <<Turnout(1000, 650, 520, 480), Results(250, 250)>>,
      <<Turnout(1200, 480, 600, 600), Results(400, NULL)>>,
      <<NoTurnout, Results(400, 250)>> }

\* the tables: the ids in assembly_constituencies (constituency 1 has a row,
\* constituency 2 has none), and for each booth its ac_id, its booth_turnout
\* row and its booth_results rows
Datasets ==
    { [constituencies |-> {1},
       ac_id |-> ac,
       booth_turnout |-> [b \in Booths |-> data[b][1]],
       booth_results |-> [b \in Booths |-> data[b][2]]] :
        ac \in { f \in [Booths -> AcIds] : f[1] = 1 },
        data \in [Booths -> BoothData] }

\* ------------------------------------------------------------------------
\* Request parameters: a path parameter is a string, here a sequence of
\* one-character strings
\* ------------------------------------------------------------------------
IdInputs ==
    { <<"1">>, <<"2">>, <<"9">>, <<"0">>, <<"-", "1">>, <<"a">>, <<"1", "a">> }

Digits == {"0", "1", "2", "9"}

DigitVal(ch) == IF ch = "0" THEN 0 ELSE IF ch = "1" THEN 1 ELSE IF ch = "2" THEN 2 ELSE 9

NaN == [nan |-> TRUE, val |-> 0]

Num(n) == [nan |-> FALSE, val |-> n]

\* the value of the longest prefix of digits of s, read after the digits acc
RECURSIVE DigitPrefix(_, _)
DigitPrefix(s, acc) ==
    IF s = <<>> \/ Head(s) \notin Digits THEN acc
    ELSE DigitPrefix(Tail(s), acc * 10 + DigitVal(Head(s)))

\* JavaScript parseInt(s): an optional sign, then the leading digits; what
\* follows the digits is ignored; no leading digit gives NaN
parseInt(s) ==
    LET neg  == s # <<>> /\ Head(s) = "-"
        body == IF neg THEN Tail(s) ELSE s
    IN  IF body = <<>> \/ Head(body) \notin Digits THEN NaN
        ELSE IF neg THEN Num(0 - DigitPrefix(body, 0))
        ELSE Num(DigitPrefix(body, 0))

\* the store's conversion of a text parameter compared with an integer
\* column: an optional sign followed by digits only, anything else is the
\* error invalid_text_representation (NaN here)
PgInteger(s) ==
    LET neg  == s # <<>> /\ Head(s) = "-"
        body == IF neg THEN Tail(s) ELSE s
    IN  IF body = <<>> \/ \E i \in 1 .. Len(body) : body[i] \notin Digits THEN NaN
        ELSE IF neg THEN Num(0 - DigitPrefix(body, 0))
        ELSE Num(DigitPrefix(body, 0))

\* a string that denotes a positive integer
IsPositiveInteger(s) ==
    /\ s # <<>>
    /\ \A i \in 1 .. Len(s) : s[i] \in Digits
    /\ DigitPrefix(s, 0) > 0

\* ------------------------------------------------------------------------
\* Errors
\* ------------------------------------------------------------------------
\* what the driver rejects a query with when the store cannot be reached
ConnRefused ==
    [name |-> "Error", code |-> "ECONNREFUSED",
     message |-> "connect ECONNREFUSED 127.0.0.1:5432"]

ConnTimeout ==
    [name |-> "Error", code |-> "ETIMEDOUT",
     message |-> "timeout exceeded when trying to connect"]

ConnectivityErrors == {ConnRefused, ConnTimeout}

\* what the store rejects a statement with
InvalidTextRepresentation ==
    [name |-> "error", code |-> "22P02",
     message |-> "invalid input syntax for type integer"]

DivisionByZero ==
    [name |-> "error", code |-> "22012", message |-> "division by zero"]

\* new AppError(message, statusCode); a message is a sequence of its parts
\* and the stack starts with the message
AppError(message, statusCode) ==
    [name |-> "Error", message |-> message, statusCode |-> statusCode,
     stack |-> <<"Error: ">> \o message \o <<" at <handler>">>]

\* the error-handling middleware: the response for an error passed to
\* next(). A field whose value is undefined is left out of the JSON body.
errorHandler(err, nodeEnv) ==
    LET error ==
            IF err.name = "TypeError" THEN AppError(<<"Type error occurred">>, 400)
            ELSE IF err.name = "ConnectionError"
                 THEN AppError(<<"Database connection error">>, 503)
            ELSE IF err.name = "QueryResultError"
                 THEN AppError(<<"Database query error">>, 500)
            ELSE [statusCode |-> err.statusCode, message |-> err.message]
        statusCode == IF error.statusCode = 0 THEN 500 ELSE error.statusCode
        message == IF error.message = <<>> THEN <<"Server Error">> ELSE error.message
    IN  [status |-> statusCode,
         body |-> IF nodeEnv = "development"
                  THEN [success |-> FALSE, error |-> message, stack |-> err.stack]
                  ELSE [success |-> FALSE, error |-> message]]

\* ------------------------------------------------------------------------
\* Statements. The tables are passed as d; a text parameter has been
\* converted to its integer value ac or booth before.
\* ------------------------------------------------------------------------
NullText == "<null>"

\* the order in which the store happens to deliver rows that the statement
\* does not order: a permutation of the candidates
RowOrders ==
    { o \in [1 .. Cardinality(Candidates) -> Candidates] :
        \A i, j \in 1 .. Cardinality(Candidates) : o[i] = o[j] => i = j }

PosIn(o, c) == CHOOSE i \in 1 .. Len(o) : o[i] = c

\* FROM booths b WHERE b.ac_id = ac
BoothsOf(d, ac) == { b \in Booths : d.ac_id[b] = ac }

\* ORDER BY b.booth_number::integer
RECURSIVE ByBoothNumber(_)
ByBoothNumber(S) ==
    IF S = {} THEN <<>>
    ELSE LET b == CHOOSE x \in S : \A y \in S : BoothNumber(x) <= BoothNumber(y)
         IN  <<b>> \o ByBoothNumber(S \ {b})

\* the candidates with a booth_results row in booth b
Contesting(d, b) == { c \in Candidates : d.booth_results[b][c] # NULL }

\* SELECT MAX(votes_secured) FROM booth_results WHERE booth_id = b
MaxVotes(d, b) ==
    IF Contesting(d, b) = {} THEN NULL
    ELSE LET c == CHOOSE x \in Contesting(d, b) :
                    \A y \in Contesting(d, b) :
                        d.booth_results[b][x] >= d.booth_results[b][y]
         IN  d.booth_results[b][c]

\* the rows with votes_secured = MAX(votes_secured) of their booth
BoothWinners(d, b) ==
    { c \in Contesting(d, b) : d.booth_results[b][c] = MaxVotes(d, b) }

\* ORDER BY br.votes_secured DESC over the candidates S of booth b; rows with
\* equal votes come in the store's order o
RECURSIVE ByVotesDesc(_, _, _, _)
ByVotesDesc(d, b, S, o) ==
    IF S = {} THEN <<>>
    ELSE LET c == CHOOSE x \in S :
                    \A y \in S :
                        \/ d.booth_results[b][x] > d.booth_results[b][y]
                        \/ /\ d.booth_results[b][x] = d.booth_results[b][y]
                           /\ PosIn(o, x) <= PosIn(o, y)
         IN  <<c>> \o ByVotesDesc(d, b, S \ {c}, o)

\* (SELECT p.party_name ... ORDER BY br.votes_secured DESC LIMIT 1)
WinningParty(d, b, o) ==
    IF Contesting(d, b) = {} THEN NullText
    ELSE PartyOf(ByVotesDesc(d, b, Contesting(d, b), o)[1])

\* the columns every booth row carries
BoothRow(d, b) ==
    [booth_id |-> b,
     booth_number |-> BoothNumber(b),
     ac_id |-> d.ac_id[b],
     total_electors |-> COALESCE(d.booth_turnout[b].total_electors, 0),
     total_votes_cast |-> COALESCE(d.booth_turnout[b].total_votes_cast, 0)]

Extend(r, f, v) == [k \in DOMAIN r \cup {f} |-> IF k = f THEN v ELSE r[k]]

MapSeq(s, F(_)) == [i \in 1 .. Len(s) |-> F(s[i])]

RECURSIVE FlatSeq(_)
FlatSeq(ss) == IF ss = <<>> THEN <<>> ELSE Head(ss) \o FlatSeq(Tail(ss))

SumSeq(s, F(_)) == SumOver([i \in 1 .. Len(s) |-> F(s[i])], 1 .. Len(s))

CountSeq(s, P(_)) == Cardinality({ i \in 1 .. Len(s) : P(s[i]) })

\* booths.routes GET /:id, boothQuery
boothQuery(d, booth) ==
    IF booth \notin Booths THEN <<>>
    ELSE << Extend(BoothRow(d, booth), "turnout_percentage",
                   NullifPct(d.booth_turnout[booth].total_votes_cast,
                             d.booth_turnout[booth].total_electors)) >>

\* booths.routes GET /:id, constituencyQuery
constituencyQuery(d, ac) ==
    IF ac \in d.constituencies THEN << [ac_name |-> "Name", ac_number |-> ac] >>
    ELSE <<>>

\* booths.routes GET /:id, resultsQuery
resultsQuery(d, booth, o) ==
    LET One(c) == [candidate |-> c, party_name |-> PartyOf(c),
                   votes_secured |-> d.booth_results[booth][c]]
    IN  IF booth \notin Booths THEN <<>>
        ELSE MapSeq(ByVotesDesc(d, booth, Contesting(d, booth), o), One)

\* booths.routes GET /constituency/:acId, boothsQuery
boothsQuery(d, ac) ==
    LET One(b) == Extend(BoothRow(d, b), "turnout_percentage",
                         NullifPct(d.booth_turnout[b].total_votes_cast,
                                   d.booth_turnout[b].total_electors))
    IN  MapSeq(ByBoothNumber(BoothsOf(d, ac)), One)

\* booth-analysis.routes analysisQuery: booth_stats LEFT JOIN booth_winners,
\* one row for each winner row of a booth and one row for a booth without
analysisQuery(d, ac, o) ==
    LET Stats(b) == Extend(BoothRow(d, b), "turnout_percentage",
                           GuardedPct(d.booth_turnout[b].total_votes_cast,
                                      d.booth_turnout[b].total_electors))
        Joined(b) ==
            IF BoothWinners(d, b) = {}
            THEN << Extend(Extend(Stats(b), "winning_party", NullText),
                           "winning_votes", NULL) >>
            ELSE LET W(c) == Extend(Extend(Stats(b), "winning_party", PartyOf(c)),
                                    "winning_votes", d.booth_results[b][c])
                 IN  MapSeq(ByVotesDesc(d, b, BoothWinners(d, b), o), W)
    IN  FlatSeq(MapSeq(ByBoothNumber(BoothsOf(d, ac)), Joined))

\* booth-analysis.routes summaryQuery: booths b LEFT JOIN booth_turnout bt
\* CROSS JOIN turnout_calc t, GROUP BY b.ac_id. turnout_calc has one row for
\* each booth of the constituency, so the joined rows are the pairs <<b, t>>
summaryQuery(d, ac) ==
    LET B      == BoothsOf(d, ac)
        Joined == B \X B
        Col(f) == [p \in Joined |-> d.booth_turnout[p[1]][f]]
        Sum(f) == IF \A p \in Joined : Col(f)[p] = NULL THEN NULL
                  ELSE SumOver([p \in Joined |-> COALESCE(Col(f)[p], 0)], Joined)
    IN  IF B = {} THEN <<>>
        ELSE << [total_booths |-> Cardinality(B),
                 total_electors |-> COALESCE(Sum("total_electors"), 0),
                 total_votes_cast |-> COALESCE(Sum("total_votes_cast"), 0)] >>

\* comparisons of a WHEN: a comparison with NULL is not true
Lt(x, k) == x # NULL /\ x < k
Ge(x, k) == x # NULL /\ x >= k
Gt(x, k) == x # NULL /\ x > k
Le(x, k) == x # NULL /\ x <= k

\* ROUND(AVG(x), 0) and ROUND(AVG(x), 2) of the integers f[i], i in S (S not
\* empty), half away from zero
RoundAvg(f, S) == (2 * SumOver(f, S) + Cardinality(S)) \div (2 * Cardinality(S))

\* booths.routes GET /:id, statsQuery: an aggregate without GROUP BY, always
\* one row; AVG skips the NULL rates
statsQuery(d, ac) ==
    LET B     == BoothsOf(d, ac)
        Rated == { b \in B : NULLIF(d.booth_turnout[b].total_electors, 0) # NULL }
        Rate  == [b \in Rated |->
                    RoundPct(d.booth_turnout[b].total_votes_cast,
                             d.booth_turnout[b].total_electors)]
    IN  << [total_booths |-> Cardinality(B),
            avg_voters |-> IF B = {} THEN NULL
                           ELSE RoundAvg([b \in B |->
                                    COALESCE(d.booth_turnout[b].total_electors, 0)], B),
            avg_turnout |-> IF Rated = {} THEN NULL ELSE RoundAvg(Rate, Rated)] >>

\* booth-analysis.routes partyDominanceQuery, GROUP BY p.party_name: the
\* parties that have a row with the maximum votes of a booth of ac
partyDominanceQuery(d, ac) ==
    LET Won(p) == { b \in BoothsOf(d, ac) :
                      \E c \in BoothWinners(d, b) : PartyOf(c) = p }
        Parties == { PartyOf(c) : c \in Candidates }
    IN  { [party_name |-> p, booths_won |-> Cardinality(Won(p))] :
            p \in { q \in Parties : Won(q) # {} } }

\* the same CASE with the high band starting above 70 instead of at 70
clusterType_Above70(turnout, total_electors) ==
    IF Gt(turnout, 7000) /\ Gt(total_electors, 800) THEN "High_Turnout_Large"
    ELSE IF Gt(turnout, 7000) /\ Le(total_electors, 800) THEN "High_Turnout_Small"
    ELSE IF Ge(turnout, 5000) /\ Gt(total_electors, 800) THEN "Medium_Turnout_Large"
    ELSE IF Ge(turnout, 5000) /\ Le(total_electors, 800) THEN "Medium_Turnout_Small"
    ELSE IF Lt(turnout, 5000) /\ Gt(total_electors, 800) THEN "Low_Turnout_Large"
    ELSE "Low_Turnout_Small"

\* booth-analysis.routes cluster_type CASE
clusterType(turnout, total_electors) ==
    IF Ge(turnout, 7000) /\ Gt(total_electors, 800) THEN "High_Turnout_Large"
    ELSE IF Ge(turnout, 7000) /\ Le(total_electors, 800) THEN "High_Turnout_Small"
    ELSE IF Ge(turnout, 5000) /\ Gt(total_electors, 800) THEN "Medium_Turnout_Large"
    ELSE IF Ge(turnout, 5000) /\ Le(total_electors, 800) THEN "Medium_Turnout_Small"
    ELSE IF Lt(turnout, 5000) /\ Gt(total_electors, 800) THEN "Low_Turnout_Large"
    ELSE "Low_Turnout_Small"

\* booth-analysis.routes booth_features CTE
boothFeatures(d, b) ==
    [booth_id |-> b,
     total_electors |-> COALESCE(d.booth_turnout[b].total_electors, 0),
     turnout |-> GuardedPct(d.booth_turnout[b].total_votes_cast,
                            d.booth_turnout[b].total_electors),
     male_percentage |-> NullifOnePct(d.booth_turnout[b].male_voters,
                                      d.booth_turnout[b].total_electors),
     female_percentage |-> NullifOnePct(d.booth_turnout[b].female_voters,
                                        d.booth_turnout[b].total_electors)]

\* a row of booth_features whose evaluation divides by zero
FeaturesFault(d, ac) ==
    \E b \in BoothsOf(d, ac) :
        \/ boothFeatures(d, b).male_percentage = DivFault
        \/ boothFeatures(d, b).female_percentage = DivFault

ClusterTypes ==
    << "High_Turnout_Large", "High_Turnout_Small", "Medium_Turnout_Large",
       "Medium_Turnout_Small", "Low_Turnout_Large", "Low_Turnout_Small" >>

\* ORDER BY booth_count DESC of the cluster rows R
RECURSIVE ByCountDesc(_)
ByCountDesc(R) ==
    IF R = {} THEN <<>>
    ELSE LET r == CHOOSE x \in R : \A y \in R : x.booth_count >= y.booth_count
         IN  <<r>> \o ByCountDesc(R \ {r})

\* booth-analysis.routes clustersQuery: GROUP BY cluster_type
clustersQuery(d, ac) ==
    LET B == BoothsOf(d, ac)
        In(t) == { b \in B : clusterType(boothFeatures(d, b).turnout,
                                         boothFeatures(d, b).total_electors) = t }
        Row(t) == [cluster_type |-> t,
                   booth_count |-> Cardinality(In(t)),
                   avg_electors |->
                       RoundAvg([b \in In(t) |-> boothFeatures(d, b).total_electors], In(t)),
                   avg_turnout |->
                       RoundAvg([b \in In(t) |-> boothFeatures(d, b).turnout], In(t))]
    IN  ByCountDesc({ Row(ClusterTypes[i]) :
                        i \in { j \in 1 .. Len(ClusterTypes) : In(ClusterTypes[j]) # {} } })

\* booth-analysis.routes comparisonQuery: WHERE b.booth_id = ANY(ids)
comparisonQuery(d, ids, o) ==
    LET Sel == { b \in Booths : \E i \in 1 .. Len(ids) : ids[i] = b }
        One(b) == Extend(Extend(Extend(BoothRow(d, b), "turnout_percentage",
                            GuardedPct(d.booth_turnout[b].total_votes_cast,
                                       d.booth_turnout[b].total_electors)),
                            "winning_party", WinningParty(d, b, o)),
                            "winning_votes", MaxVotes(d, b))
    IN  MapSeq(ByBoothNumber(Sel), One)

\* booth-analysis.routes recommendation_category CASE
recommendationCategory(winning_percentage, turnout, total_electors) ==
    IF Lt(winning_percentage, 5500) THEN "Highly_Competitive"
    ELSE IF Ge(winning_percentage, 5500) THEN "Stronghold"
    ELSE IF Lt(turnout, 5000) THEN "Low_Turnout_Opportunity"
    ELSE IF Gt(total_electors, 1000) THEN "High_Density_Strategic"
    ELSE "Standard"

\* the same ORDER BY CASE with the large booths before the low-turnout booths
recommendationGroup_DensityFirst(winning_percentage, turnout, total_electors) ==
    IF Lt(winning_percentage, 5500) THEN 1
    ELSE IF Gt(total_electors, 1000) THEN 2
    ELSE IF Lt(turnout, 5000) THEN 3
    ELSE 4

\* booth-analysis.routes ORDER BY CASE of the recommendations
recommendationGroup(winning_percentage, turnout, total_electors) ==
    IF Lt(winning_percentage, 5500) THEN 1
    ELSE IF Lt(turnout, 5000) THEN 2
    ELSE IF Gt(total_electors, 1000) THEN 3
    ELSE 4

\* booth-analysis.routes booth_performance and booth_margins CTEs
boothMargins(d, b, o) ==
    LET turnout == GuardedPct(d.booth_turnout[b].total_votes_cast,
                              d.booth_turnout[b].total_electors)
        cast == COALESCE(d.booth_turnout[b].total_votes_cast, 0)
        wp == IF cast > 0 THEN RoundPct(MaxVotes(d, b), cast) ELSE 0
    IN  [booth_id |-> b,
         booth_number |-> BoothNumber(b),
         total_electors |-> COALESCE(d.booth_turnout[b].total_electors, 0),
         total_votes_cast |-> cast,
         turnout |-> turnout,
         winning_party |-> WinningParty(d, b, o),
         winning_votes |-> MaxVotes(d, b),
         winning_percentage |-> wp]

\* ORDER BY the group, then booth_number::integer, of the booths S
RECURSIVE ByGroupThenNumber(_, _, _)
ByGroupThenNumber(d, S, o) ==
    IF S = {} THEN <<>>
    ELSE LET G(b) == recommendationGroup(boothMargins(d, b, o).winning_percentage,
                                         boothMargins(d, b, o).turnout,
                                         boothMargins(d, b, o).total_electors)
             b == CHOOSE x \in S :
                    \A y \in S :
                        \/ G(x) < G(y)
                        \/ G(x) = G(y) /\ BoothNumber(x) <= BoothNumber(y)
         IN  <<b>> \o ByGroupThenNumber(d, S \ {b}, o)

\* booth-analysis.routes recommendationsQuery
recommendationsQuery(d, ac, o) ==
    LET One(b) == Extend(boothMargins(d, b, o), "recommendation_category",
                         recommendationCategory(boothMargins(d, b, o).winning_percentage,
                                                boothMargins(d, b, o).turnout,
                                                boothMargins(d, b, o).total_electors))
    IN  MapSeq(ByGroupThenNumber(d, BoothsOf(d, ac), o), One)

\* booth-analysis.routes demographicsQuery
demographicsQuery(d, ac) ==
    LET t(b) == d.booth_turnout[b]
        One(b) == [booth_id |-> b,
                   booth_number |-> BoothNumber(b),
                   total_electors |-> COALESCE(t(b).total_electors, 0),
                   male_voters |-> COALESCE(t(b).male_voters, 0),
                   female_voters |-> COALESCE(t(b).female_voters, 0),
                   male_percentage |-> GuardedPct(t(b).male_voters, t(b).total_electors),
                   female_percentage |-> GuardedPct(t(b).female_voters, t(b).total_electors),
                   turnout_percentage |-> GuardedPct(t(b).total_votes_cast, t(b).total_electors)]
    IN  MapSeq(ByBoothNumber(BoothsOf(d, ac)), One)

Metrics == {"turnout", "voters"}

\* booth-analysis.routes heatmapQuery; intensity is CASE $3 WHEN 'turnout' ...
heatmapQuery(d, ac, metric, o) ==
    LET t(b) == d.booth_turnout[b]
        One(b) == [booth_id |-> b,
                   booth_number |-> BoothNumber(b),
                   total_electors |-> COALESCE(t(b).total_electors, 0),
                   turnout_percentage |-> GuardedPct(t(b).total_votes_cast, t(b).total_electors),
                   winning_party |-> WinningParty(d, b, o),
                   intensity |-> IF metric = "turnout"
                                 THEN GuardedPct(t(b).total_votes_cast, t(b).total_electors)
                                 ELSE COALESCE(t(b).total_electors, 0)]
    IN  MapSeq(ByBoothNumber(BoothsOf(d, ac)), One)

\* Math.max(...xs) and Math.min(...xs) over a non-empty sequence
MaxOf(xs) == CHOOSE x \in { xs[i] : i \in 1 .. Len(xs) } : \A i \in 1 .. Len(xs) : x >= xs[i]
MinOf(xs) == CHOOSE x \in { xs[i] : i \in 1 .. Len(xs) } : \A i \in 1 .. Len(xs) : x <= xs[i]

\* the same rescaling with the fraction cut off instead of rounded
normalizedIntensity_Floor(v, minIntensity, maxIntensity) ==
    IF maxIntensity > minIntensity
    THEN ((v - minIntensity) * 100) \div (maxIntensity - minIntensity)
    ELSE 50

\* booth-analysis.routes normalized_intensity: Math.round of the rescaled
\* intensity, computed exactly here (for v >= minIntensity); the double that
\* Math.round receives can lie just below an exact half
normalizedIntensity(v, minIntensity, maxIntensity) ==
    IF maxIntensity > minIntensity
    THEN (2 * (v - minIntensity) * 100 + (maxIntensity - minIntensity))
            \div (2 * (maxIntensity - minIntensity))
    ELSE 50

\* booth-analysis.routes normalizedData: heatmapData.map(booth => ({ ...booth,
\* normalized_intensity })) with the minimum and maximum of the intensities
normalizedData(heatmapData) ==
    LET intensities == [i \in 1 .. Len(heatmapData) |-> heatmapData[i].intensity]
    IN  [i \in 1 .. Len(heatmapData) |->
            Extend(heatmapData[i], "normalized_intensity",
                   normalizedIntensity(heatmapData[i].intensity,
                                       MinOf(intensities), MaxOf(intensities)))]

PartyNames == {"PartyA", "PartyB", "PartyZ"}

\* ORDER BY br.votes_secured DESC over the result rows R of several booths
RECURSIVE ByPartyVotesDesc(_)
ByPartyVotesDesc(R) ==
    IF R = {} THEN <<>>
    ELSE LET r == CHOOSE x \in R :
                    \A y \in R :
                        \/ x.party_votes > y.party_votes
                        \/ x.party_votes = y.party_votes /\ x.booth_id <= y.booth_id
         IN  <<r>> \o ByPartyVotesDesc(R \ {r})

\* booth-analysis.routes performanceQuery: booth_results JOIN booths JOIN
\* booth_turnout WHERE b.ac_id = ac AND p.party_name = partyName
performanceQuery(d, ac, partyName) ==
    LET Rows == { <<b, c>> \in BoothsOf(d, ac) \X Candidates :
                    /\ d.booth_results[b][c] # NULL
                    /\ d.booth_turnout[b] # NoTurnout
                    /\ PartyOf(c) = partyName }
        One(p) == [booth_id |-> p[1],
                   candidate |-> p[2],
                   party_votes |-> d.booth_results[p[1]][p[2]],
                   vote_share |-> GuardedPct(d.booth_results[p[1]][p[2]],
                                             d.booth_turnout[p[1]].total_votes_cast),
                   is_winner |-> d.booth_results[p[1]][p[2]] = MaxVotes(d, p[1])]
    IN  ByPartyVotesDesc({ One(p) : p \in Rows })

\* ------------------------------------------------------------------------
\* The server: requests in flight. Each handler runs up to its next await of
\* pool.query in one step; the reply of the store, rows or a rejection, is
\* the next step.
\* ------------------------------------------------------------------------
\* calc is the last application of one of the handlers' computations to rows
\* given directly (used by CalcSpec only)
VARIABLES db, nodeEnv, clients, req, calc, pool, proc

vars == <<db, nodeEnv, clients, req, calc, pool, proc>>

NoCalc == [fn |-> "none", input |-> <<>>, output |-> <<>>]

Slots == {1, 2}

\* the reply of the store without a rejection; also: nothing was caught
Ok == [name |-> "ok", code |-> "", message |-> ""]

NoResponse == [status |-> 0, body |-> <<>>]

Idle ==
    [op |-> "none", id |-> <<>>, arg |-> <<>>, pc |-> "idle", issued |-> <<>>,
     held |-> <<>>, caught |-> Ok, resp |-> NoResponse]

\* how a statement with the text parameter id can end: the store cannot be
\* reached, or the text is no integer, or rows come back
Outcomes(id) ==
    ConnectivityErrors \cup
        { IF PgInteger(id).nan THEN InvalidTextRepresentation ELSE Ok }

\* pool.query(q): the handler awaits the reply of q
Query(r, q) == [r EXCEPT !.pc = q, !.issued = Append(@, q)]

\* res.json(...) or the response written by the error middleware
Responded(r, response) == [r EXCEPT !.pc = "done", !.resp = response]

\* res.json({ success: true, data })
Success(data) == [status |-> 200, body |-> [success |-> TRUE, data |-> data]]

\* next(new AppError(message, statusCode)) and the middleware after it
Next_(r, message, statusCode) ==
    Responded(r, errorHandler(AppError(message, statusCode), nodeEnv))

\* a catch that issues the failed query again instead of answering
Caught_Retry(r, error, message) ==
    [r EXCEPT !.issued = Append(@, r.pc), !.caught = error]

\* catch (error) { next(new AppError(message, 500)) }
Caught(r, error, message) == [Next_(r, message, 500) EXCEPT !.caught = error]

\* ---- the process -----------------------------------------------------------
\* the process after app.listen and the startup pool.connect(): the HTTP
\* server (listening, closing after server.close, closed once 'close' is
\* emitted), the close callbacks and forced-shutdown timers that the calls of
\* gracefulShutdown have registered, the signals received, the calls of
\* pool.end(), whether the pool is ending and whether a callback awaits
\* pool.end(), whether the pool has open connections, the continuations that
\* are ready to run, and the exit code once process.exit was called
Started ==
    [server |-> "listening", callbacks |-> 0, timers |-> 0, signals |-> 0,
     ends |-> 0, ending |-> FALSE, awaitingEnd |-> FALSE, poolClients |-> TRUE,
     ready |-> <<>>, exited |-> FALSE, exitCode |-> 0, forced |-> FALSE]

Running == ~proc.exited

\* the process after a handler has left the request as r: a query that was
\* issued has a connection of the pool opened for it
Connected(r) ==
    IF r.pc \in {"idle", "done"} THEN proc ELSE [proc EXCEPT !.poolClients = TRUE]

\* ---- the connection pool -------------------------------------------------
\* poolConfig of src/src/db.ts sets neither max nor a timeout, so the pool has
\* the driver's defaults: ten connections and no limit on the wait for one.
\* No statement or query timeout is set.
poolConfig == [max |-> 10, connectionTimeoutMillis |-> 0]

\* poolConfig of the other db.ts: max 20 and connectionTimeoutMillis 2000,
\* again without a statement or query timeout
poolConfig_part_000 == [max |-> 20, connectionTimeoutMillis |-> 2000]

\* new Pool(config): holders are the requests whose query has a connection,
\* pending the queries that wait for one in arrival order, others the
\* connections in use by requests of other routes, answering whether the
\* store still answers what it is sent
NewPool(config) ==
    [config |-> config, holders |-> {}, pending |-> <<>>, others |-> 0,
     answering |-> TRUE]

InUse(p) == Cardinality(p.holders) + p.others

\* pool.query releases the connection when the query has ended, with rows or
\* with an error: it goes to the longest waiting query, if there is one
Release(p, c) ==
    IF c \notin p.holders THEN p
    ELSE IF p.pending = <<>> THEN [p EXCEPT !.holders = @ \ {c}]
    ELSE [p EXCEPT !.holders = (@ \ {c}) \cup {Head(p.pending)},
                   !.pending = Tail(@)]

\* pool.query takes a connection for the query, or waits for one
Connect(p, c) ==
    IF InUse(p) < p.config.max
    THEN [p EXCEPT !.holders = @ \cup {c}]
    ELSE [p EXCEPT !.pending = Append(@, c)]

\* the pool after the step that leaves the request of slot c as r: the
\* connection of the query that ended is released, and a query that r has
\* issued asks for a connection of its own
Settle(c, r) ==
    LET released == Release(pool, c)
    IN  IF r.pc \in {"idle", "done"} THEN released ELSE Connect(released, c)

Arrive(c, r) ==
    /\ c \in clients
    /\ Running
    /\ proc.server = "listening"
    /\ req[c].pc = "idle"
    /\ req' = [req EXCEPT ![c] = r]
    /\ pool' = Settle(c, r)
    /\ proc' = Connected(r)
    /\ UNCHANGED <<db, nodeEnv, clients, calc>>

\* the reply to query q of the request in slot c has come: the query has a
\* connection and the store answers
Awaits(c, op, q) ==
    /\ c \in clients
    /\ Running
    /\ req[c].op = op
    /\ req[c].pc = q
    /\ c \in pool.holders
    /\ pool.answering

\* a handler whose statement also deletes the turnout rows it has read
Continue_Writes(c, r) ==
    /\ req' = [req EXCEPT ![c] = r]
    /\ pool' = Settle(c, r)
    /\ db' = [db EXCEPT !.booth_turnout = [b \in Booths |-> NoTurnout]]
    /\ proc' = [proc EXCEPT !.poolClients = TRUE]
    /\ UNCHANGED <<nodeEnv, clients, calc>>

Continue(c, r) ==
    /\ req' = [req EXCEPT ![c] = r]
    /\ pool' = Settle(c, r)
    /\ proc' = [proc EXCEPT !.poolClients = TRUE]
    /\ UNCHANGED <<db, nodeEnv, clients, calc>>

Init ==
    /\ db \in Datasets
    /\ nodeEnv \in {"production", "development"}
    /\ clients = {1}
    /\ req = [c \in Slots |-> Idle]
    /\ calc = NoCalc
    /\ pool = NewPool(poolConfig)
    /\ proc = Started

\* the exchange is over and the next request of this client can arrive
Close(c) ==
    /\ c \in clients
    /\ Running
    /\ req[c].pc = "done"
    /\ req' = [req EXCEPT ![c] = Idle]
    /\ UNCHANGED <<db, nodeEnv, clients, calc, pool, proc>>

\* ---- GET /api/booths/:id ------------------------------------------------
BoothDetailsReceive(c) ==
    \E id \in IdInputs :
        LET boothId == parseInt(id)
            r == [Idle EXCEPT !.op = "details", !.id = id]
        IN  Arrive(c,
                IF boothId.nan \/ boothId.val <= 0
                THEN Next_(r, <<"Invalid booth ID. Must be a positive number.">>, 400)
                ELSE Query([r EXCEPT !.held = [boothId |-> boothId.val]], "boothQuery"))

DetailsCaught(r, error) ==
    Caught(r, error, <<"Failed to fetch booth details: ", error.message>>)

\* the same early return answering 500 in place of 404
BoothNotFound_500(r) == Next_(r, <<"Booth not found">>, 500)

\* if (boothQuery.rows.length === 0) return next(new AppError('Booth not found', 404))
BoothNotFound(r) == Next_(r, <<"Booth not found">>, 404)

BoothDetailsBooth(c) ==
    /\ Awaits(c, "details", "boothQuery")
    /\ \E out \in ConnectivityErrors \cup {Ok} :
        LET r == req[c]
            rows == boothQuery(db, r.held.boothId)
        IN  Continue(c,
                IF out # Ok THEN DetailsCaught(r, out)
                ELSE IF Len(rows) = 0 THEN BoothNotFound(r)
                ELSE Query([r EXCEPT !.held = Extend(@, "boothData", rows[1])],
                           "constituencyQuery"))

Unknown == [ac_name |-> "Unknown", ac_number |-> 0]

BoothDetailsConstituency(c) ==
    /\ Awaits(c, "details", "constituencyQuery")
    /\ \E out \in ConnectivityErrors \cup {Ok} :
        LET r == req[c]
            rows == constituencyQuery(db, r.held.boothData.ac_id)
            constituency == IF Len(rows) = 0 THEN Unknown ELSE rows[1]
        IN  Continue(c,
                IF out # Ok THEN DetailsCaught(r, out)
                ELSE Query([r EXCEPT !.held = Extend(@, "constituency", constituency)],
                           "resultsQuery"))

\* the same with the percentage cut off after two decimals instead of rounded
RankedResults_Truncated(results, totalVotes) ==
    [i \in 1 .. Len(results) |->
        Extend(Extend(results[i], "vote_percentage",
                      IF totalVotes > 0
                      THEN (results[i].votes_secured * 10000) \div totalVotes
                      ELSE 0),
               "rank", i)]

\* the results with vote_percentage and rank added
RankedResults(results, totalVotes) ==
    [i \in 1 .. Len(results) |->
        Extend(Extend(results[i], "vote_percentage",
                      IF totalVotes > 0
                      THEN RoundPct(results[i].votes_secured, totalVotes)
                      ELSE 0),
               "rank", i)]

BoothDetailsResults(c) ==
    /\ Awaits(c, "details", "resultsQuery")
    /\ \E out \in ConnectivityErrors \cup {Ok}, o \in RowOrders :
        LET r == req[c]
            results == resultsQuery(db, r.held.boothId, o)
            Votes(x) == x.votes_secured
            totalVotes == IF r.held.boothData.total_votes_cast # 0
                          THEN r.held.boothData.total_votes_cast
                          ELSE SumSeq(results, Votes)
        IN  Continue(c,
                IF out # Ok THEN DetailsCaught(r, out)
                ELSE Query([r EXCEPT !.held =
                               Extend(Extend(@, "results", RankedResults(results, totalVotes)),
                                      "totalVotes", totalVotes)],
                           "statsQuery"))

\* x || 0 for a column that can be NULL
OrZero(x) == IF x = NULL THEN 0 ELSE x

BoothDetailsStats(c) ==
    /\ Awaits(c, "details", "statsQuery")
    /\ \E out \in ConnectivityErrors \cup {Ok} :
        LET r == req[c]
            h == r.held
            stats == statsQuery(db, h.boothData.ac_id)[1]
            results == h.results
            data ==
              [booth |->
                 [booth_id |-> h.boothData.booth_id,
                  ac_id |-> h.boothData.ac_id,
                  ac_name |-> h.constituency.ac_name,
                  total_electors |-> h.boothData.total_electors,
                  total_votes_cast |-> h.boothData.total_votes_cast,
                  turnout_percentage |-> h.boothData.turnout_percentage,
                  constituency_avg_voters |-> OrZero(stats.avg_voters),
                  constituency_turnout |-> OrZero(stats.avg_turnout),
                  total_booths_in_constituency |-> stats.total_booths],
               results |-> results,
               summary |->
                 [total_candidates |-> Len(results),
                  total_votes |-> h.totalVotes,
                  winning_votes |-> IF Len(results) > 0 THEN results[1].votes_secured ELSE 0,
                  winning_percentage |->
                      IF Len(results) > 0 THEN results[1].vote_percentage ELSE 0,
                  margin_votes |->
                      IF Len(results) > 1
                      THEN results[1].votes_secured - results[2].votes_secured
                      ELSE 0]]
        IN  Continue(c,
                IF out # Ok THEN DetailsCaught(r, out)
                ELSE Responded(r, Success(data)))

\* ---- GET /api/booths/constituency/:acId ----------------------------------
ConstituencyBoothsReceive(c) ==
    \E acId \in IdInputs :
        Arrive(c, Query([Idle EXCEPT !.op = "booths", !.id = acId], "boothsQuery"))

ConstituencyBoothsReply(c) ==
    /\ Awaits(c, "booths", "boothsQuery")
    /\ \E out \in Outcomes(req[c].id) :
        LET r == req[c]
        IN  Continue(c,
                IF out # Ok THEN Caught(r, out, <<"Failed to fetch booths">>)
                ELSE Responded(r, Success(boothsQuery(db, PgInteger(r.id).val))))

\* ---- GET /api/booths/health ---------------------------------------------
HealthReceive(c) ==
    Arrive(c, Query([Idle EXCEPT !.op = "health"], "healthQuery"))

HealthReply(c) ==
    /\ Awaits(c, "health", "healthQuery")
    /\ \E out \in ConnectivityErrors \cup {Ok} :
        LET r == req[c]
        IN  Continue(c,
                IF out # Ok
                THEN Responded([r EXCEPT !.caught = out],
                        [status |-> 500,
                         body |-> [success |-> FALSE, error |-> <<out.message>>,
                                   stack |-> <<"Error: ", out.message, " at <driver>">>]])
                ELSE Responded(r,
                        [status |-> 200,
                         body |-> [success |-> TRUE, database |-> [connected |-> TRUE]]]))

\* ---- GET /api/booth-analysis/constituency/:acId/booth-analysis ----------
AnalysisCaught(r, error) ==
    Caught(r, error, <<"Failed to fetch booth analysis: ", error.message>>)

BoothAnalysisReceive(c) ==
    \E acId \in IdInputs :
        Arrive(c, Query([Idle EXCEPT !.op = "analysis", !.id = acId], "analysisQuery"))

BoothAnalysisRows(c) ==
    /\ Awaits(c, "analysis", "analysisQuery")
    /\ \E out \in Outcomes(req[c].id), o \in RowOrders :
        LET r == req[c]
            rows == analysisQuery(db, PgInteger(r.id).val, o)
        IN  Continue(c,
                IF out # Ok THEN AnalysisCaught(r, out)
                ELSE Query([r EXCEPT !.held = [analysisData |-> rows]], "summaryQuery"))

BoothAnalysisSummary(c) ==
    /\ Awaits(c, "analysis", "summaryQuery")
    /\ \E out \in Outcomes(req[c].id) :
        LET r == req[c]
            rows == summaryQuery(db, PgInteger(r.id).val)
            summary == IF Len(rows) = 0 THEN <<>> ELSE rows[1]
        IN  Continue(c,
                IF out # Ok THEN AnalysisCaught(r, out)
                ELSE Query([r EXCEPT !.held = Extend(@, "summary", summary)],
                           "partyDominanceQuery"))

\* the insight counters over the analysis rows
Insights(analysisData) ==
    LET High(b) == b.turnout_percentage >= 7000
        Low(b) == b.turnout_percentage < 5000
        Large(b) == b.total_electors > 1000
    IN  [high_turnout_booths |-> CountSeq(analysisData, High),
         low_turnout_booths |-> CountSeq(analysisData, Low),
         large_booths |-> CountSeq(analysisData, Large),
         total_booths_analyzed |-> Len(analysisData)]

BoothAnalysisDominance(c) ==
    /\ Awaits(c, "analysis", "partyDominanceQuery")
    /\ \E out \in Outcomes(req[c].id) :
        LET r == req[c]
            partyDominance == partyDominanceQuery(db, PgInteger(r.id).val)
            data == [booths |-> r.held.analysisData,
                     party_dominance |-> partyDominance,
                     summary |-> r.held.summary,
                     insights |-> Insights(r.held.analysisData)]
        IN  Continue(c,
                IF out # Ok THEN AnalysisCaught(r, out)
                ELSE Responded(r, Success(data)))

\* ---- GET /api/booth-analysis/party-performance/:acId/:partyName ---------
\* performance.reduce((sum, b) => sum + b.vote_share, 0) / performance.length:
\* the driver delivers the numeric vote_share as text, so the reduce appends
\* the texts to "0"; the text of one share divides as that share, the text of
\* several shares is no number
avgVoteShare(performance) ==
    IF Len(performance) = 0 THEN Num(0)
    ELSE IF Len(performance) = 1 THEN Num(performance[1].vote_share)
    ELSE NaN

PartyPerformanceReceive(c) ==
    \E acId \in IdInputs, partyName \in PartyNames :
        Arrive(c, Query([Idle EXCEPT !.op = "party", !.id = acId, !.arg = partyName],
                        "performanceQuery"))

PartyPerformanceReply(c) ==
    /\ Awaits(c, "party", "performanceQuery")
    /\ \E out \in Outcomes(req[c].id) :
        LET r == req[c]
            performance == performanceQuery(db, PgInteger(r.id).val, r.arg)
            Won(p) == p.is_winner
            Votes(p) == p.party_votes
            data == [party_name |-> r.arg,
                     booths_contested |-> Len(performance),
                     booths_won |-> CountSeq(performance, Won),
                     total_votes |-> SumSeq(performance, Votes),
                     avg_vote_share |-> avgVoteShare(performance),
                     performance |-> performance]
        IN  Continue(c,
                IF out # Ok THEN Caught(r, out, <<"Failed to fetch party performance">>)
                ELSE Responded(r, Success(data)))

\* ---- GET /api/booth-analysis/clusters/:acId -----------------------------
\* the decimal text of n >= 0: the driver delivers COUNT(*), a bigint, as text
RECURSIVE Decimal(_)
Decimal(n) ==
    LET DigitText == <<"0", "1", "2", "3", "4", "5", "6", "7", "8", "9">>
    IN  IF n < 10 THEN <<DigitText[n + 1]>>
        ELSE Decimal(n \div 10) \o <<DigitText[(n % 10) + 1]>>

\* clusters.reduce((sum, c) => sum + c.booth_count, 0): the number 0 for no
\* cluster; otherwise 0 + text is text, and each further + appends text
RECURSIVE TotalBooths(_)
TotalBooths(clusters) ==
    IF clusters = <<>> THEN 0
    ELSE LET sum == TotalBooths(SubSeq(clusters, 1, Len(clusters) - 1))
             text == IF Len(clusters) = 1 THEN <<"0">> ELSE sum
         IN  text \o Decimal(clusters[Len(clusters)].booth_count)

\* The statement selects only cluster_type, booth_count and the averages from
\* booth_features. Whether the store evaluates the unused male_percentage and
\* female_percentage columns depends on how it plans the WITH query
\* (materialized or inlined): both happen.
BoothClustersReceive(c) ==
    \E acId \in IdInputs :
        Arrive(c, Query([Idle EXCEPT !.op = "clusters", !.id = acId], "clustersQuery"))

BoothClustersReply(c) ==
    /\ Awaits(c, "clusters", "clustersQuery")
    /\ \E out \in Outcomes(req[c].id), materialized \in BOOLEAN :
        LET r == req[c]
            ac == PgInteger(r.id).val
            clusters == clustersQuery(db, ac)
            data == [clusters |-> clusters,
                     total_clusters |-> Len(clusters),
                     total_booths |-> TotalBooths(clusters)]
        IN  Continue(c,
                IF out # Ok THEN Caught(r, out, <<"Failed to fetch booth clusters">>)
                ELSE IF materialized /\ FeaturesFault(db, ac)
                THEN Caught(r, DivisionByZero, <<"Failed to fetch booth clusters">>)
                ELSE Responded(r, Success(data)))

\* ---- POST /api/booth-analysis/compare -----------------------------------
\* req.body.boothIds: absent, an array of booth ids, or a string
BodyInputs ==
    { [kind |-> "undefined", ids |-> <<>>],
      [kind |-> "string", ids |-> <<>>],
      [kind |-> "array", ids |-> <<>>],
      [kind |-> "array", ids |-> <<1>>],
      [kind |-> "array", ids |-> <<1, 2>>] }

\* !boothIds || !Array.isArray(boothIds)
NoBoothIdsArray(boothIds) == boothIds.kind = "undefined" \/ boothIds.kind # "array"

CompareReceive(c) ==
    \E boothIds \in BodyInputs :
        LET r == [Idle EXCEPT !.op = "compare", !.arg = boothIds]
        IN  Arrive(c,
                IF NoBoothIdsArray(boothIds)
                THEN Next_(r, <<"Please provide booth IDs array">>, 400)
                ELSE Query(r, "comparisonQuery"))

CompareReply(c) ==
    /\ Awaits(c, "compare", "comparisonQuery")
    /\ \E out \in ConnectivityErrors \cup {Ok}, o \in RowOrders :
        LET r == req[c]
            comparison == comparisonQuery(db, r.arg.ids, o)
            Electors(b) == b.total_electors
            Cast(b) == b.total_votes_cast
            data == [booths |-> comparison,
                     summary |-> [total_booths |-> Len(comparison),
                                  total_electors |-> SumSeq(comparison, Electors),
                                  total_votes |-> SumSeq(comparison, Cast)]]
        IN  Continue(c,
                IF out # Ok THEN Caught(r, out, <<"Failed to compare booths">>)
                ELSE Responded(r, Success(data)))

\* ---- GET /api/booth-analysis/recommendations/:acId ----------------------
RecommendationsReceive(c) ==
    \E acId \in IdInputs :
        Arrive(c, Query([Idle EXCEPT !.op = "recommendations", !.id = acId],
                        "recommendationsQuery"))

RecommendationsReply(c) ==
    /\ Awaits(c, "recommendations", "recommendationsQuery")
    /\ \E out \in Outcomes(req[c].id), o \in RowOrders :
        LET r == req[c]
            recommendations == recommendationsQuery(db, PgInteger(r.id).val, o)
            Is(k) == { i \in 1 .. Len(recommendations) :
                         recommendations[i].recommendation_category = k }
            data == [recommendations |-> recommendations,
                     summary |->
                        [total_booths |-> Len(recommendations),
                         highly_competitive |-> Cardinality(Is("Highly_Competitive")),
                         strongholds |-> Cardinality(Is("Stronghold")),
                         low_turnout_opportunities |->
                             Cardinality(Is("Low_Turnout_Opportunity"))]]
        IN  Continue(c,
                IF out # Ok THEN Caught(r, out, <<"Failed to fetch recommendations">>)
                ELSE Responded(r, Success(data)))

\* ---- GET /api/booth-analysis/demographics/:acId -------------------------
DemographicsReceive(c) ==
    \E acId \in IdInputs :
        Arrive(c, Query([Idle EXCEPT !.op = "demographics", !.id = acId],
                        "demographicsQuery"))

DemographicsReply(c) ==
    /\ Awaits(c, "demographics", "demographicsQuery")
    /\ \E out \in Outcomes(req[c].id) :
        LET r == req[c]
            demographics == demographicsQuery(db, PgInteger(r.id).val)
            Electors(x) == x.total_electors
            Male(x) == x.male_voters
            Female(x) == x.female_voters
            data == [demographics |-> demographics,
                     insights |-> [total_electors |-> SumSeq(demographics, Electors),
                                   male_electors |-> SumSeq(demographics, Male),
                                   female_electors |-> SumSeq(demographics, Female)]]
        IN  Continue(c,
                IF out # Ok THEN Caught(r, out, <<"Failed to fetch demographic analysis">>)
                ELSE Responded(r, Success(data)))

\* ---- GET /api/booth-analysis/heatmap/:acId ------------------------------
HeatmapReceive(c) ==
    \E acId \in IdInputs, metric \in Metrics :
        Arrive(c, Query([Idle EXCEPT !.op = "heatmap", !.id = acId, !.arg = metric],
                        "heatmapQuery"))

HeatmapReply(c) ==
    /\ Awaits(c, "heatmap", "heatmapQuery")
    /\ \E out \in Outcomes(req[c].id), o \in RowOrders :
        LET r == req[c]
            heatmapData == heatmapQuery(db, PgInteger(r.id).val, r.arg, o)
            normalized == normalizedData(heatmapData)
            data == [heatmap |-> normalized,
                     metadata |-> [metric |-> r.arg, total_points |-> Len(normalized)]]
        IN  Continue(c,
                IF out # Ok THEN Caught(r, out, <<"Failed to fetch heatmap data">>)
                ELSE Responded(r, Success(data)))

\* ---- GET /api/elections/results -----------------------------------------
\* the elections table: election 1, which every other statement reads, is the
\* election of 2022; election 2 is the one of 2012
Elections ==
    { [election_id |-> 1, election_year |-> 2022],
      [election_id |-> 2, election_year |-> 2012] }

\* the booth_results rows of election eid: those of the dataset for election
\* 1, the candidates' votes exchanged for election 2, none for any other id
ResultsIn(d, eid) ==
    IF eid = 1 THEN d.booth_results
    ELSE IF eid = 2
    THEN [b \in Booths |-> [c \in Candidates |-> d.booth_results[b][3 - c]]]
    ELSE [b \in Booths |-> [c \in Candidates |-> NULL]]

\* the query parameter year: absent, or the text of a year or of a number
YearInputs == { <<>>, <<"2", "0", "2", "2">>, <<"2", "0", "1", "2">>, <<"1">> }

\* const electionYear = year || 2022
electionYear(year) == IF year = <<>> THEN 2022 ELSE PgInteger(year).val

\* elections.routes GET /results: SUM(br.votes_secured) per candidate WHERE
\* b.ac_id = $1 AND br.election_id = $2, ranked by the sum, equal sums in the
\* store's order o
resultsOfElection(d, ac, eid, o) ==
    LET B == BoothsOf(d, ac)
        R == ResultsIn(d, eid)
        With(c) == { b \in B : R[b][c] # NULL }
        Cands == { c \in Candidates : With(c) # {} }
        Votes(c) == SumOver([b \in With(c) |-> R[b][c]], With(c))
        total == SumOver([c \in Cands |-> Votes(c)], Cands)
        Before(x, y) == \/ Votes(x) > Votes(y)
                        \/ Votes(x) = Votes(y) /\ PosIn(o, x) <= PosIn(o, y)
        Rank(c) == Cardinality({ x \in Cands : Before(x, c) })
    IN  [i \in 1 .. Cardinality(Cands) |->
            LET c == CHOOSE x \in Cands : Rank(x) = i
            IN  [rank |-> i,
                 party_name |-> PartyOf(c),
                 votes |-> Votes(c),
                 percentage |-> RoundPct(Votes(c), total)]]

ElectionResultsReceive(c) ==
    \E constituency_id \in IdInputs \cup {<<>>}, year \in YearInputs :
        LET r == [Idle EXCEPT !.op = "results", !.id = constituency_id, !.arg = year]
        IN  Arrive(c,
                IF constituency_id = <<>>
                THEN Next_(r, <<"Constituency ID is required">>, 400)
                ELSE Query(r, "results"))

ElectionResultsReply(c) ==
    /\ Awaits(c, "results", "results")
    /\ \E out \in Outcomes(req[c].id), o \in RowOrders :
        LET r == req[c]
            rows == resultsOfElection(db, PgInteger(r.id).val, electionYear(r.arg), o)
        IN  Continue(c,
                IF out # Ok THEN Caught(r, out, <<"Failed to fetch election results">>)
                ELSE Responded(r,
                        [status |-> 200,
                         body |-> [success |-> TRUE, data |-> rows,
                                   election_year |-> electionYear(r.arg)]]))

\* ---- app.use('*'): a request that no route matches -------------------------
\* new Date().toISOString() at two moments
Timestamps == {"2026-01-01T00:00:00.000Z", "2026-01-01T00:00:01.000Z"}

UnknownRoute(c) ==
    \E method \in {"GET", "POST"}, originalUrl \in {"/api/unknown", "/"},
       timestamp \in Timestamps :
        Arrive(c,
            Responded([Idle EXCEPT !.op = "unknown", !.id = <<originalUrl>>,
                                   !.arg = method],
                [status |-> 404,
                 body |-> [error |-> <<"Not Found">>,
                           message |-> <<"Cannot ", method, " ", originalUrl>>,
                           timestamp |-> timestamp,
                           path |-> originalUrl]]))

\* ---- GET /api/constituencies/:id/stats ------------------------------------
\* the candidates table of the statistics: four candidates of four parties
StatsCandidates == 1 .. 4

StatsPartyOf(c) == <<"PartyA", "PartyB", "PartyC", "PartyD">>[c]

\* candidate_name of the four candidates: all different, or candidates of
\* different parties with the same name
CandidateNamings ==
    { <<"Ram", "Shyam", "Sita", "Gita">>,
      <<"Ram", "Ram", "Sita", "Gita">>,
      <<"Ram", "Ram", "Sita", "Sita">> }

\* the tables the statistics read: every booth in constituency 1, with or
\* without a turnout row; the candidates' votes in booth 1 and, when the other
\* booths are loaded, the same votes there
StatsDatasets ==
    { [constituencies |-> {1},
       ac_id |-> [b \in Booths |-> 1],
       booth_turnout |-> bt,
       booth_results |->
           [b \in Booths |-> IF b = 1 \/ loaded THEN v
                             ELSE [c \in StatsCandidates |-> NULL]],
       candidate_name |-> names] :
        bt \in [Booths -> {Turnout(1000, 650, 520, 480), NoTurnout}],
        v \in [StatsCandidates -> {NULL, 300, 400}],
        loaded \in BOOLEAN,
        names \in CandidateNamings }

\* statsResult: FROM booth_turnout bt JOIN booths b WHERE b.ac_id = $1
\* GROUP BY b.ac_id
statsResult(d, ac) ==
    LET T == { b \in BoothsOf(d, ac) : d.booth_turnout[b] # NoTurnout }
        electors == SumOver([b \in T |-> d.booth_turnout[b].total_electors], T)
        cast == SumOver([b \in T |-> d.booth_turnout[b].total_votes_cast], T)
    IN  IF T = {} THEN <<>>
        ELSE << [total_booths |-> Cardinality(T),
                 total_electors |-> electors,
                 total_votes_cast |-> cast,
                 turnout_percentage |-> RoundPct(cast, NULLIF(electors, 0))] >>

\* the candidates with a result row in a booth of ac, and SUM(br.votes_secured)
\* of the rows of a set of candidates
StatsContestants(d, ac) ==
    { c \in StatsCandidates : \E b \in BoothsOf(d, ac) : d.booth_results[b][c] # NULL }

StatsVotes(d, ac, S) ==
    LET Rows == { p \in BoothsOf(d, ac) \X S : d.booth_results[p[1]][p[2]] # NULL }
    IN  SumOver([p \in Rows |-> d.booth_results[p[1]][p[2]]], Rows)

\* winnerResult: GROUP BY c.candidate_name, p.party_name ORDER BY votes DESC
\* LIMIT 1. The candidates are of different parties, so a group is one
\* candidate; the rows the store may deliver first are those of the top votes
winnerResult(d, ac) ==
    LET C == StatsContestants(d, ac)
        total == StatsVotes(d, ac, C)
        Top == { c \in C : \A x \in C : StatsVotes(d, ac, {c}) >= StatsVotes(d, ac, {x}) }
    IN  { [candidate_name |-> d.candidate_name[c],
           party_name |-> StatsPartyOf(c),
           votes |-> StatsVotes(d, ac, {c}),
           vote_percentage |-> RoundPct(StatsVotes(d, ac, {c}), NULLIF(total, 0))] :
            c \in Top }

\* runnerUpResult: GROUP BY c.candidate_name ORDER BY votes DESC LIMIT 1
\* OFFSET 1: the second row of the totals per name
runnerUpResult(d, ac) ==
    LET C == StatsContestants(d, ac)
        total == StatsVotes(d, ac, C)
        Names == { d.candidate_name[c] : c \in C }
        Of(n) == StatsVotes(d, ac, { c \in C : d.candidate_name[c] = n })
        first == CHOOSE n \in Names : \A m \in Names : Of(n) >= Of(m)
        Rest == Names \ {first}
        second == CHOOSE n \in Rest : \A m \in Rest : Of(n) >= Of(m)
    IN  IF Cardinality(Names) < 2 THEN <<>>
        ELSE << [votes |-> Of(second),
                 vote_percentage |-> RoundPct(Of(second), NULLIF(total, 0))] >>

StatsCaught(r, error) ==
    Caught(r, error, <<"Failed to fetch constituency statistics">>)

ConstituencyStatsReceive(c) ==
    \E id \in IdInputs :
        Arrive(c, Query([Idle EXCEPT !.op = "stats", !.id = id], "statsResult"))

ConstituencyStatsTotals(c) ==
    /\ Awaits(c, "stats", "statsResult")
    /\ \E out \in Outcomes(req[c].id) :
        LET r == req[c]
            rows == statsResult(db, PgInteger(r.id).val)
        IN  Continue(c,
                IF out # Ok THEN StatsCaught(r, out)
                ELSE Query([r EXCEPT !.held = [statsResult |-> rows]], "winnerResult"))

ConstituencyStatsWinner(c) ==
    /\ Awaits(c, "stats", "winnerResult")
    /\ \E out \in Outcomes(req[c].id) :
        LET r == req[c]
            rows == winnerResult(db, PgInteger(r.id).val)
        IN  \E winner \in IF rows = {} THEN {<<>>} ELSE { <<w>> : w \in rows } :
                Continue(c,
                    IF out # Ok THEN StatsCaught(r, out)
                    ELSE Query([r EXCEPT !.held = Extend(@, "winnerResult", winner)],
                               "runnerUpResult"))

\* the response of the statistics; the percentages are in hundredths
ConstituencyStatsRunnerUp(c) ==
    /\ Awaits(c, "stats", "runnerUpResult")
    /\ \E out \in Outcomes(req[c].id) :
        LET r == req[c]
            stats == r.held.statsResult
            winner == r.held.winnerResult
            runnerUp == runnerUpResult(db, PgInteger(r.id).val)
            both == winner # <<>> /\ runnerUp # <<>>
            data == [constituency_id |-> parseInt(r.id).val,
                     total_voters |-> IF stats = <<>> THEN 0 ELSE stats[1].total_electors,
                     polling_booths |-> IF stats = <<>> THEN 0 ELSE stats[1].total_booths,
                     winner_2022 |-> IF winner = <<>> THEN NullText ELSE winner[1],
                     turnout_2022 |-> IF stats = <<>> THEN 0
                                      ELSE COALESCE(stats[1].turnout_percentage, 0),
                     margin_2022 |-> IF both THEN winner[1].votes - runnerUp[1].votes ELSE 0,
                     margin_percentage_2022 |->
                         IF both THEN winner[1].vote_percentage - runnerUp[1].vote_percentage
                         ELSE 0]
        IN  Continue(c,
                IF out # Ok THEN StatsCaught(r, out)
                ELSE Responded(r, Success(data)))

Next ==
    \E c \in Slots :
        \/ BoothDetailsReceive(c)
        \/ BoothDetailsBooth(c)
        \/ BoothDetailsConstituency(c)
        \/ BoothDetailsResults(c)
        \/ BoothDetailsStats(c)
        \/ ConstituencyBoothsReceive(c)
        \/ ConstituencyBoothsReply(c)
        \/ HealthReceive(c)
        \/ HealthReply(c)
        \/ BoothAnalysisReceive(c)
        \/ BoothAnalysisRows(c)
        \/ BoothAnalysisSummary(c)
        \/ BoothAnalysisDominance(c)
        \/ PartyPerformanceReceive(c)
        \/ PartyPerformanceReply(c)
        \/ BoothClustersReceive(c)
        \/ BoothClustersReply(c)
        \/ CompareReceive(c)
        \/ CompareReply(c)
        \/ RecommendationsReceive(c)
        \/ RecommendationsReply(c)
        \/ DemographicsReceive(c)
        \/ DemographicsReply(c)
        \/ HeatmapReceive(c)
        \/ HeatmapReply(c)
        \/ Close(c)

Spec == Init /\ [][Next]_vars

\* two clients whose requests are in flight together, over one dataset: every
\* booth is in constituency 1 and has a clear winner
PairDatasets ==
    { d \in Datasets :
        \A b \in Booths :
            /\ d.ac_id[b] = 1
            /\ d.booth_turnout[b] = Turnout(1000, 650, 520, 480)
            /\ d.booth_results[b] = Results(400, 250) }

InitPair ==
    /\ db \in PairDatasets
    /\ nodeEnv \in {"production", "development"}
    /\ clients = {1, 2}
    /\ req = [c \in Slots |-> Idle]
    /\ calc = NoCalc
    /\ pool = NewPool(poolConfig)
    /\ proc = Started

\* the requests of the pair: the handlers whose catch or reply puts the caught
\* error's text into the response (booth details, booth analysis, health) and
\* one whose catch sends a fixed message (clusters)
NextPair ==
    \E c \in Slots :
        \/ BoothDetailsReceive(c)
        \/ BoothDetailsBooth(c)
        \/ BoothDetailsConstituency(c)
        \/ BoothDetailsResults(c)
        \/ BoothDetailsStats(c)
        \/ HealthReceive(c)
        \/ HealthReply(c)
        \/ BoothAnalysisReceive(c)
        \/ BoothAnalysisRows(c)
        \/ BoothAnalysisSummary(c)
        \/ BoothAnalysisDominance(c)
        \/ BoothClustersReceive(c)
        \/ BoothClustersReply(c)
        \/ Close(c)

SpecPair == InitPair /\ [][NextPair]_vars

\* two clients repeating requests over one dataset in which the candidates of
\* booth 1 tie for the maximum and every other booth has a clear winner
TieDatasets ==
    { d \in Datasets :
        \A b \in Booths :
            /\ d.ac_id[b] = 1
            /\ d.booth_turnout[b] = Turnout(1000, 650, 520, 480)
            /\ d.booth_results[b] = IF b = 1 THEN Results(250, 250) ELSE Results(400, 250) }

InitTie ==
    /\ db \in TieDatasets
    /\ nodeEnv \in {"production", "development"}
    /\ clients = {1, 2}
    /\ req = [c \in Slots |-> Idle]
    /\ calc = NoCalc
    /\ pool = NewPool(poolConfig)
    /\ proc = Started

\* the requests that report a winner for each booth
NextTie ==
    \E c \in Slots :
        \/ BoothAnalysisReceive(c)
        \/ BoothAnalysisRows(c)
        \/ BoothAnalysisSummary(c)
        \/ BoothAnalysisDominance(c)
        \/ CompareReceive(c)
        \/ CompareReply(c)
        \/ RecommendationsReceive(c)
        \/ RecommendationsReply(c)
        \/ HeatmapReceive(c)
        \/ HeatmapReply(c)
        \/ Close(c)

\* ------------------------------------------------------------------------
\* Requests over a busy pool and a store that may stop answering
\* ------------------------------------------------------------------------
\* a request of another route takes a free connection for a query
OthersAcquire ==
    /\ InUse(pool) < pool.config.max
    /\ pool' = [pool EXCEPT !.others = @ + 1]
    /\ UNCHANGED <<db, nodeEnv, clients, req, calc, proc>>

\* the store answers a query of another route, whose connection goes to the
\* longest waiting query or back to the pool
OthersRelease ==
    /\ pool.others > 0
    /\ pool.answering
    /\ pool' = IF pool.pending = <<>>
               THEN [pool EXCEPT !.others = @ - 1]
               ELSE [pool EXCEPT !.others = @ - 1,
                                 !.holders = @ \cup {Head(pool.pending)},
                                 !.pending = Tail(@)]
    /\ UNCHANGED <<db, nodeEnv, clients, req, calc, proc>>

\* the store stops answering: nothing comes back on any connection, neither
\* rows nor an error
StoreSilent ==
    /\ pool.answering
    /\ pool' = [pool EXCEPT !.answering = FALSE]
    /\ UNCHANGED <<db, nodeEnv, clients, req, calc, proc>>

\* connectionTimeoutMillis has passed for a waiting query of the booth
\* analysis: pool.query rejects and the handler's catch answers
AcquireTimeout(c) ==
    /\ c \in clients
    /\ pool.config.connectionTimeoutMillis > 0
    /\ \E i \in 1 .. Len(pool.pending) :
          /\ pool.pending[i] = c
          /\ pool' = [pool EXCEPT !.pending =
                          SubSeq(@, 1, i - 1) \o SubSeq(@, i + 1, Len(@))]
    /\ req[c].op = "analysis"
    /\ req' = [req EXCEPT ![c] = AnalysisCaught(req[c], ConnTimeout)]
    /\ UNCHANGED <<db, nodeEnv, clients, calc, proc>>

\* the pool of either db.ts with none, all but one or all of its connections
\* in use by other routes
InitPool ==
    /\ db \in PairDatasets
    /\ nodeEnv = "production"
    /\ clients = {1, 2}
    /\ req = [c \in Slots |-> Idle]
    /\ calc = NoCalc
    /\ \E config \in {poolConfig, poolConfig_part_000} :
          \E n \in {0, config.max - 1, config.max} :
              pool = [NewPool(config) EXCEPT !.others = n]
    /\ proc = Started

\* what the request of slot c does next
RequestStep(c) ==
    \/ BoothAnalysisReceive(c)
    \/ BoothAnalysisRows(c)
    \/ BoothAnalysisSummary(c)
    \/ BoothAnalysisDominance(c)
    \/ AcquireTimeout(c)
    \/ Close(c)

NextPool ==
    \/ \E c \in Slots : RequestStep(c)
    \/ OthersAcquire
    \/ OthersRelease
    \/ StoreSilent

\* the event loop runs a handler when its request or the reply it awaits has
\* come and fires a timer that is due; a store that answers also answers the
\* other routes. Nothing makes the store answer.
SpecPool ==
    /\ InitPool
    /\ [][NextPool]_vars
    /\ \A c \in Slots : WF_vars(RequestStep(c))
    /\ WF_vars(OthersRelease)


SpecTie == InitTie /\ [][NextTie]_vars

\* ------------------------------------------------------------------------
\* Requests to the election and constituency routes
\* ------------------------------------------------------------------------
NextRoutes ==
    \E c \in Slots :
        \/ ElectionResultsReceive(c)
        \/ ElectionResultsReply(c)
        \/ UnknownRoute(c)
        \/ Close(c)

SpecRoutes == Init /\ [][NextRoutes]_vars

\* ------------------------------------------------------------------------
\* Requests for the statistics of a constituency
\* ------------------------------------------------------------------------
InitStats ==
    /\ db \in StatsDatasets
    /\ nodeEnv = "production"
    /\ clients = {1}
    /\ req = [c \in Slots |-> Idle]
    /\ calc = NoCalc
    /\ pool = NewPool(poolConfig)
    /\ proc = Started

NextStats ==
    \E c \in Slots :
        \/ ConstituencyStatsReceive(c)
        \/ ConstituencyStatsTotals(c)
        \/ ConstituencyStatsWinner(c)
        \/ ConstituencyStatsRunnerUp(c)
        \/ Close(c)

SpecStats == InitStats /\ [][NextStats]_vars

\* ------------------------------------------------------------------------
\* Shutdown of the process
\* ------------------------------------------------------------------------
\* no request is in flight: the HTTP server has no open exchange
Drained == \A c \in Slots : req[c].pc \in {"idle", "done"}

Unchanged == UNCHANGED <<db, nodeEnv, clients, req, calc, pool>>

\* gracefulShutdown(signal), from SIGTERM, SIGINT, uncaughtException or
\* unhandledRejection: server.close(callback) stops the listening and
\* registers the callback for 'close', also when the server is closing or
\* closed already, and setTimeout arms a forced exit
gracefulShutdown ==
    /\ Running
    /\ proc.signals < MaxSignals
    /\ proc' = [proc EXCEPT !.signals = @ + 1,
                            !.server = IF @ = "listening" THEN "closing" ELSE @,
                            !.callbacks = @ + 1,
                            !.timers = @ + 1]
    /\ Unchanged

\* the continuations that the n callbacks of one 'close' leave ready, in the
\* order the callbacks ran: a callback whose pool.end() is the first call
\* awaits the end of the pool's connections, or goes on at once to
\* process.exit(0) when the pool has none; pool.end() on a pool that is
\* ending rejects, and the catch goes on to process.exit(1)
RECURSIVE Rejections(_)
Rejections(n) == IF n = 0 THEN <<>> ELSE <<1>> \o Rejections(n - 1)

\* 'close' is emitted once no exchange is open, and after a later
\* server.close on the closed server again: every registered callback runs up
\* to its await pool.end()
ServerClose ==
    /\ Running
    /\ proc.server # "listening"
    /\ proc.callbacks > 0
    /\ Drained
    /\ LET n == proc.callbacks
           first == ~proc.ending
           atOnce == first /\ ~proc.poolClients
       IN  proc' = [proc EXCEPT
                       !.server = "closed",
                       !.callbacks = 0,
                       !.ends = @ + n,
                       !.ending = TRUE,
                       !.awaitingEnd = @ \/ (first /\ proc.poolClients),
                       !.ready = @ \o (IF atOnce THEN <<0>> ELSE <<>>)
                                   \o Rejections(IF first THEN n - 1 ELSE n)]
    /\ Unchanged

\* the connections of the ending pool have closed: pool.end() resolves
PoolEnded ==
    /\ Running
    /\ proc.awaitingEnd
    /\ proc' = [proc EXCEPT !.awaitingEnd = FALSE, !.poolClients = FALSE,
                            !.ready = Append(@, 0)]
    /\ Unchanged

\* the continuation that became ready first runs: process.exit(0) after the
\* await, process.exit(1) in the catch
ProcessExit ==
    /\ Running
    /\ proc.ready # <<>>
    /\ proc' = [proc EXCEPT !.exited = TRUE, !.exitCode = Head(proc.ready),
                            !.ready = Tail(@)]
    /\ Unchanged

\* a forced-shutdown timer is due: process.exit(1)
ForcedExit ==
    /\ Running
    /\ proc.timers > 0
    /\ proc' = [proc EXCEPT !.exited = TRUE, !.exitCode = 1, !.forced = TRUE]
    /\ Unchanged

\* the pool removes connections that were idle for idleTimeoutMillis
IdleTimeout ==
    /\ Running
    /\ proc.poolClients
    /\ ~proc.ending
    /\ pool.holders = {} /\ pool.pending = <<>>
    /\ proc' = [proc EXCEPT !.poolClients = FALSE]
    /\ Unchanged

NextShutdown ==
    \/ \E c \in Slots : HealthReceive(c) \/ HealthReply(c) \/ Close(c)
    \/ gracefulShutdown
    \/ ServerClose
    \/ PoolEnded
    \/ ProcessExit
    \/ ForcedExit
    \/ IdleTimeout

\* the event loop runs what is ready: the 'close' event, the end of the pool,
\* a continuation, a timer that is due, and the handler of a reply
SpecShutdown ==
    /\ InitPair
    /\ [][NextShutdown]_vars
    /\ WF_vars(ServerClose)
    /\ WF_vars(PoolEnded)
    /\ WF_vars(ProcessExit)
    /\ WF_vars(ForcedExit)

\* ---- the computations of the handlers, applied to rows given directly ----
\* the intensity column of heatmapQuery: a turnout or a number of electors
Intensities == {0, 5, 23, 40, 50, 100}

RECURSIVE SeqsUpTo(_, _)
SeqsUpTo(S, n) ==
    IF n = 0 THEN {<<>>}
    ELSE LET shorter == SeqsUpTo(S, n - 1)
         IN  shorter \cup { Append(s, x) : s \in shorter, x \in S }

HeatmapRows ==
    { [i \in 1 .. Len(xs) |-> [booth_id |-> i, intensity |-> xs[i]]] :
        xs \in SeqsUpTo(Intensities, MaxPoints) \ {<<>>} }

Applied(fn, input, output) ==
    /\ calc' = [fn |-> fn, input |-> input, output |-> output]
    /\ UNCHANGED <<db, nodeEnv, clients, req, pool, proc>>

ApplyNormalizedData ==
    \E heatmapData \in HeatmapRows :
        Applied("normalizedData", heatmapData, normalizedData(heatmapData))

\* booth_turnout rows at and next to the thresholds of the cluster bands
\* (turnout 70.00, 69.90, 50.00, 49.90; electors 800, 801), a booth without
\* electors and a booth without a turnout row
ClusterTurnouts ==
    { Turnout(1000, 700, 0, 0), Turnout(800, 560, 0, 0), Turnout(1000, 699, 0, 0),
      Turnout(1000, 500, 0, 0), Turnout(800, 400, 0, 0), Turnout(1000, 499, 0, 0),
      Turnout(801, 400, 0, 0), Turnout(900, 675, 0, 0), Turnout(300, 120, 0, 0),
      Turnout(0, 0, 0, 0), NoTurnout }

ClusterDatasets ==
    { [constituencies |-> {1},
       ac_id |-> [b \in Booths |-> 1],
       booth_turnout |-> bt,
       booth_results |-> [b \in Booths |-> Results(NULL, NULL)]] :
        bt \in [Booths -> ClusterTurnouts] }

ApplyClustersQuery ==
    \E d \in ClusterDatasets :
        Applied("clustersQuery", d, clustersQuery(d, 1))

\* booths of each group of the recommendations: competitive (38.46 %), low
\* turnout (40 %), low turnout and large, large, neither, exactly 55 %, and
\* a booth with votes cast but no result row
RecommendationBooths ==
    { <<Turnout(1000, 650, 0, 0), Results(250, 250)>>,
      <<Turnout(1000, 400, 0, 0), Results(300, NULL)>>,
      <<Turnout(1200, 480, 0, 0), Results(400, NULL)>>,
      <<Turnout(1200, 720, 0, 0), Results(600, 100)>>,
      <<Turnout(1000, 650, 0, 0), Results(400, 250)>>,
      <<Turnout(1000, 1000, 0, 0), Results(550, 450)>>,
      <<Turnout(1000, 650, 0, 0), Results(NULL, NULL)>> }

RecommendationDatasets ==
    { [constituencies |-> {1},
       ac_id |-> [b \in Booths |-> 1],
       booth_turnout |-> [b \in Booths |-> data[b][1]],
       booth_results |-> [b \in Booths |-> data[b][2]]] :
        data \in [Booths -> RecommendationBooths] }

ApplyRecommendationsQuery ==
    \E d \in RecommendationDatasets, o \in RowOrders :
        Applied("recommendationsQuery", d, recommendationsQuery(d, 1, o))

InitCalc ==
    /\ db \in PairDatasets
    /\ nodeEnv = "production"
    /\ clients = {}
    /\ req = [c \in Slots |-> Idle]
    /\ calc = NoCalc
    /\ pool = NewPool(poolConfig)
    /\ proc = Started

NextCalc ==
    \/ ApplyNormalizedData
    \/ ApplyClustersQuery
    \/ ApplyRecommendationsQuery

SpecCalc == InitCalc /\ [][NextCalc]_vars

\* ------------------------------------------------------------------------
\* Properties
\* ------------------------------------------------------------------------
Done(c) == c \in clients /\ req[c].pc = "done"

Succeeded(c) == Done(c) /\ req[c].resp.status = 200

\* the operations of the Booth Analytics Service that take an identifier
IdOps == {"details", "analysis", "party", "clusters", "recommendations",
          "demographics", "heatmap"}

\* the operations that take a constituency identifier
AcOps == {"analysis", "clusters", "recommendations", "demographics", "heatmap"}

\* the booth ids in a sequence of booth rows, and a column of the rows of
\* booth b (every row of one booth carries the same booth_stats columns)
BoothIdsIn(rows) == { rows[i].booth_id : i \in 1 .. Len(rows) }

ColumnOf(rows, b, f) == rows[CHOOSE i \in 1 .. Len(rows) : rows[i].booth_id = b][f]

\* C1: the summary of getConstituencyBoothAnalysis agrees with its per-booth
\* rows: summary.total_electors is the sum of total_electors over the booths
\* of the constituency, and summary.total_votes_cast is the sum of their
\* total_votes_cast, for any number of booths.
C1_SummaryEqualsBoothSums ==
    \A c \in Slots :
        (Succeeded(c) /\ req[c].op = "analysis") =>
            LET data == req[c].resp.body.data
                B == BoothIdsIn(data.booths)
            IN  B # {} =>
                  /\ data.summary.total_electors =
                        SumOver([b \in B |-> ColumnOf(data.booths, b, "total_electors")], B)
                  /\ data.summary.total_votes_cast =
                        SumOver([b \in B |-> ColumnOf(data.booths, b, "total_votes_cast")], B)

\* C2: compareBooths fails with 400 whenever boothIds is an empty sequence or
\* is not provided; then no query is issued and no success response is sent.
C2_EmptyCompareRejected ==
    \A c \in Slots :
        (/\ c \in clients
         /\ req[c].op = "compare"
         /\ \/ req[c].arg.kind = "undefined"
            \/ req[c].arg.kind = "array" /\ Len(req[c].arg.ids) = 0) =>
            /\ req[c].issued = <<>>
            /\ Done(c) => req[c].resp.status = 400

\* the classification the specification gives, with the labels of the code
competitivenessCategory(winningPercentage, turnout, electors) ==
    IF winningPercentage < 5500 THEN "Highly_Competitive"
    ELSE IF turnout < 5000 THEN "Low_Turnout_Opportunity"
    ELSE IF electors > 1000 THEN "High_Density_Strategic"
    ELSE IF winningPercentage >= 5500 THEN "Stronghold"
    ELSE "Standard"

\* C3: every booth returned by getRecommendations carries the category of the
\* priority-ordered classification: winning percentage < 55, else turnout <
\* 50, else electors > 1000, else winning percentage >= 55, else Standard.
C3_CategoryFollowsPriority ==
    \A c \in Slots :
        (Succeeded(c) /\ req[c].op = "recommendations") =>
            LET rows == req[c].resp.body.data.recommendations
            IN  \A i \in 1 .. Len(rows) :
                    rows[i].winning_percentage # NULL =>
                        rows[i].recommendation_category =
                            competitivenessCategory(rows[i].winning_percentage,
                                                    rows[i].turnout,
                                                    rows[i].total_electors)

\* C4: every turnout_percentage reported for a booth whose total_electors is 0
\* (or that has no turnout row) is the number 0, in getBoothDetails, in the
\* booth list of a constituency and in the booth analysis.
C4_ZeroElectorsZeroTurnout ==
    \A c \in Slots :
        /\ (Succeeded(c) /\ req[c].op = "details") =>
              LET booth == req[c].resp.body.data.booth
              IN  booth.total_electors = 0 => booth.turnout_percentage = 0
        /\ (Succeeded(c) /\ req[c].op = "booths") =>
              LET rows == req[c].resp.body.data
              IN  \A i \in 1 .. Len(rows) :
                      rows[i].total_electors = 0 => rows[i].turnout_percentage = 0
        /\ (Succeeded(c) /\ req[c].op = "analysis") =>
              LET rows == req[c].resp.body.data.booths
              IN  \A i \in 1 .. Len(rows) :
                      rows[i].total_electors = 0 => rows[i].turnout_percentage = 0

\* C5: getBoothClusters never fails because of a zero denominator: when the
\* store is reachable and the identifier is an integer, the response is a
\* success, also for a constituency with a booth whose total_electors is 0,
\* and such a booth is counted in the cluster of turnout 0.
C5_ClustersNeverDivideByZero ==
    \A c \in Slots :
        (/\ Done(c)
         /\ req[c].op = "clusters"
         /\ ~PgInteger(req[c].id).nan
         /\ req[c].caught \notin ConnectivityErrors) =>
            /\ req[c].resp.status = 200
            /\ (\E b \in BoothsOf(db, PgInteger(req[c].id).val) :
                    db.booth_turnout[b].total_electors = 0) =>
                  \E i \in 1 .. Len(req[c].resp.body.data.clusters) :
                      /\ req[c].resp.body.data.clusters[i].cluster_type = "Low_Turnout_Small"
                      /\ req[c].resp.body.data.clusters[i].booth_count >= 1

\* C6: every operation that takes a booth or constituency identifier rejects
\* an identifier that is not a positive integer with 400 before it issues a
\* query.
C6_BadIdentifierRejected ==
    \A c \in Slots :
        (/\ c \in clients
         /\ req[c].op \in IdOps
         /\ ~IsPositiveInteger(req[c].id)) =>
            /\ req[c].issued = <<>>
            /\ Done(c) => req[c].resp.status = 400

\* the booth id a getBoothDetails request names does not exist
NoSuchBooth(c) ==
    /\ c \in clients
    /\ req[c].op = "details"
    /\ IsPositiveInteger(req[c].id)
    /\ parseInt(req[c].id).val \notin Booths

\* C7: getBoothDetails fails with 404 for every valid positive-integer boothId
\* that has no booth row: after the booth lookup returned no row the handler
\* issues none of the constituency, results or statistics queries and sends
\* no success response.
C7_MissingBoothNotFound ==
    \A c \in Slots :
        NoSuchBooth(c) =>
            /\ req[c].issued = <<"boothQuery">>
            /\ (Done(c) /\ req[c].caught = Ok) =>
                  /\ req[c].resp.status = 404
                  /\ req[c].resp.body.success = FALSE
            /\ Done(c) => req[c].resp.status # 200

C7_Witness ==
    \E c \in Slots :
        /\ NoSuchBooth(c)
        /\ Done(c)
        /\ req[c].caught = Ok
        /\ req[c].resp.status = 404

\* C8: a constituency-scoped operation called with an acId that matches no
\* constituency yields 404, and getBoothDetails yields 404 when the
\* constituency row of the booth is absent.
C8_MissingConstituencyNotFound ==
    \A c \in Slots :
        /\ (/\ Done(c)
            /\ req[c].op \in AcOps
            /\ req[c].caught = Ok
            /\ IsPositiveInteger(req[c].id)
            /\ PgInteger(req[c].id).val \notin db.constituencies) =>
                req[c].resp.status = 404
        /\ (/\ Done(c)
            /\ req[c].op = "details"
            /\ req[c].caught = Ok
            /\ "boothData" \in DOMAIN req[c].held
            /\ req[c].held.boothData.ac_id \notin db.constituencies) =>
                req[c].resp.status = 404

\* C9: a request whose query fails because the store is unreachable or times
\* out ends with 503.
C9_UnreachableStoreIs503 ==
    \A c \in Slots :
        (Done(c) /\ req[c].caught \in ConnectivityErrors) =>
            req[c].resp.status = 503

\* C10: outside the development mode, two runs of the same request that fail
\* with different driver errors get identical response bodies.
C10_ErrorBodyIndependentOfDriver ==
    \A c1, c2 \in Slots :
        (/\ Done(c1) /\ Done(c2)
         /\ nodeEnv = "production"
         /\ req[c1].op = req[c2].op
         /\ req[c1].id = req[c2].id
         /\ req[c1].arg = req[c2].arg
         /\ req[c1].caught # Ok
         /\ req[c2].caught # Ok) =>
            req[c1].resp.body = req[c2].resp.body

\* the operations that report a winner for each booth, and their booth rows
WinnerOps == {"compare", "recommendations", "heatmap", "analysis"}

WinnerRows(c) ==
    LET data == req[c].resp.body.data
    IN  IF req[c].op = "recommendations" THEN data.recommendations
        ELSE IF req[c].op = "heatmap" THEN data.heatmap
        ELSE data.booths

\* C11: the winner reported for a booth by compareBooths, getRecommendations,
\* getHeatmap and getConstituencyBoothAnalysis is an entry with the maximum
\* votes_secured of the booth, and two calls of the same request over the same
\* dataset report the same winners, also when candidates tie for the maximum.
C11_WinnerIsMaxAndRepeatable ==
    /\ \A c \in Slots :
          (Succeeded(c) /\ req[c].op \in WinnerOps) =>
              \A i \in 1 .. Len(WinnerRows(c)) :
                  LET row == WinnerRows(c)[i]
                      b == row.booth_id
                  IN  Contesting(db, b) # {} =>
                        \E w \in Contesting(db, b) :
                            /\ PartyOf(w) = row.winning_party
                            /\ \A x \in Contesting(db, b) :
                                  db.booth_results[b][x] <= db.booth_results[b][w]
                            /\ "winning_votes" \in DOMAIN row =>
                                  row.winning_votes = db.booth_results[b][w]
    /\ \A c1, c2 \in Slots :
          (/\ Succeeded(c1) /\ Succeeded(c2)
           /\ req[c1].op \in WinnerOps
           /\ req[c1].op = req[c2].op
           /\ req[c1].id = req[c2].id
           /\ req[c1].arg = req[c2].arg) =>
              /\ Len(WinnerRows(c1)) = Len(WinnerRows(c2))
              /\ \A i \in 1 .. Len(WinnerRows(c1)) :
                    /\ WinnerRows(c1)[i].booth_id = WinnerRows(c2)[i].booth_id
                    /\ WinnerRows(c1)[i].winning_party = WinnerRows(c2)[i].winning_party

\* C12: the normalized_intensity of every row is heatmapNormalize of the raw
\* intensities: 50 for every row when the maximum equals the minimum;
\* otherwise the integer nearest to (v - min) / (max - min) * 100, which is 0
\* for the minimum, 100 for the maximum and between 0 and 100 for every row.
C12_NormalizedIntensity ==
    calc.fn = "normalizedData" =>
        LET rows == calc.input
            xs == [i \in 1 .. Len(rows) |-> rows[i].intensity]
            mn == MinOf(xs)
            mx == MaxOf(xs)
            Abs(x) == IF x < 0 THEN 0 - x ELSE x
        IN  /\ Len(calc.output) = Len(rows)
            /\ \A i \in 1 .. Len(rows) :
                  LET n == calc.output[i].normalized_intensity
                  IN  /\ calc.output[i].booth_id = rows[i].booth_id
                      /\ mx = mn => n = 50
                      /\ mx > mn =>
                            /\ n \in 0 .. 100
                            /\ 2 * Abs(100 * (xs[i] - mn) - n * (mx - mn)) <= mx - mn
                            /\ xs[i] = mn => n = 0
                            /\ xs[i] = mx => n = 100

C12_Witness ==
    /\ calc.fn = "normalizedData"
    /\ \E i, j, k \in 1 .. Len(calc.output) :
          /\ calc.output[i].normalized_intensity = 0
          /\ calc.output[j].normalized_intensity = 100
          /\ calc.output[k].normalized_intensity \in 1 .. 99

\* the classification the specification gives, with the labels of the code
clusterLabel(turnout, electors) ==
    LET band == IF turnout >= 7000 THEN "High"
                ELSE IF turnout >= 5000 THEN "Medium" ELSE "Low"
        large == electors > 800
    IN  IF band = "High" THEN (IF large THEN "High_Turnout_Large" ELSE "High_Turnout_Small")
        ELSE IF band = "Medium"
             THEN (IF large THEN "Medium_Turnout_Large" ELSE "Medium_Turnout_Small")
        ELSE (IF large THEN "Low_Turnout_Large" ELSE "Low_Turnout_Small")

\* the turnout and the electors of booth b in the tables d, 0 without a row
ElectorsOf(d, b) ==
    IF d.booth_turnout[b].total_electors = NULL THEN 0
    ELSE d.booth_turnout[b].total_electors

TurnoutOf(d, b) ==
    IF ElectorsOf(d, b) = 0 THEN 0
    ELSE (2 * d.booth_turnout[b].total_votes_cast * 10000 + ElectorsOf(d, b))
            \div (2 * ElectorsOf(d, b))

\* C13: every booth of the constituency receives exactly the label
\* {High,Medium,Low}_Turnout_{Large,Small} of its two bands (turnout >= 70
\* High, >= 50 Medium, else Low; electors > 800 Large, else Small): each
\* label's cluster counts the booths with that label, and a label without a
\* booth has no cluster.
C13_ClusterLabel ==
    calc.fn = "clustersQuery" =>
        LET d == calc.input
            rows == calc.output
            Labelled(t) == { b \in Booths :
                               clusterLabel(TurnoutOf(d, b), ElectorsOf(d, b)) = t }
        IN  \A k \in 1 .. Len(ClusterTypes) :
                LET t == ClusterTypes[k]
                    At == { i \in 1 .. Len(rows) : rows[i].cluster_type = t }
                IN  /\ Cardinality(At) = (IF Labelled(t) = {} THEN 0 ELSE 1)
                    /\ \A i \in At : rows[i].booth_count = Cardinality(Labelled(t))

C13_Witness ==
    /\ calc.fn = "clustersQuery"
    /\ \E b \in Booths : calc.input.booth_turnout[b] = Turnout(800, 560, 0, 0)
    /\ \E b \in Booths : calc.input.booth_turnout[b] = Turnout(1000, 500, 0, 0)
    /\ \E i \in 1 .. Len(calc.output) : calc.output[i].cluster_type = "High_Turnout_Small"
    /\ \E i \in 1 .. Len(calc.output) : calc.output[i].cluster_type = "Medium_Turnout_Large"

\* C14: getBoothDetails derives its values from the rows of the booth: each
\* result's vote_percentage is votes_secured * 100 / total rounded to two
\* decimals, where total is the booth's total_votes_cast, or the sum of the
\* results' votes when that is 0; the results are ranked 1..n in
\* non-increasing order of votes; the winner is the result of rank 1; and
\* margin_votes is the winner's votes minus the runner-up's, 0 with fewer than
\* two results, never negative.
C14_BoothDetailsDerivedValues ==
    \A c \in Slots :
        (Succeeded(c) /\ req[c].op = "details") =>
            LET data == req[c].resp.body.data
                b == data.booth.booth_id
                results == data.results
                n == Len(results)
                cast == IF db.booth_turnout[b].total_votes_cast = NULL THEN 0
                        ELSE db.booth_turnout[b].total_votes_cast
                total == IF cast # 0 THEN cast
                         ELSE SumOver([x \in Contesting(db, b) |-> db.booth_results[b][x]],
                                      Contesting(db, b))
                Abs(x) == IF x < 0 THEN 0 - x ELSE x
            IN  /\ n = Cardinality(Contesting(db, b))
                /\ \A x \in Contesting(db, b) :
                      \E i \in 1 .. n :
                          /\ results[i].candidate = x
                          /\ results[i].votes_secured = db.booth_results[b][x]
                /\ \A i \in 1 .. n :
                      /\ results[i].rank = i
                      /\ i < n => results[i].votes_secured >= results[i + 1].votes_secured
                      /\ total = 0 => results[i].vote_percentage = 0
                      /\ total > 0 =>
                            2 * Abs(results[i].votes_secured * 10000
                                      - results[i].vote_percentage * total) <= total
                /\ data.summary.total_candidates = n
                /\ data.summary.total_votes = total
                /\ n > 0 => /\ data.summary.winning_votes = results[1].votes_secured
                            /\ data.summary.winning_percentage = results[1].vote_percentage
                /\ data.summary.margin_votes =
                      (IF n > 1 THEN results[1].votes_secured - results[2].votes_secured ELSE 0)
                /\ data.summary.margin_votes >= 0

\* the end-to-end scenario: 1000 electors, 650 votes cast, results 400 and 250
C14_Witness ==
    \E c \in Slots :
        /\ Succeeded(c)
        /\ req[c].op = "details"
        /\ req[c].resp.body.data.booth.total_electors = 1000
        /\ req[c].resp.body.data.booth.turnout_percentage = 6500
        /\ Len(req[c].resp.body.data.results) = 2
        /\ req[c].resp.body.data.results[1].votes_secured = 400
        /\ req[c].resp.body.data.results[1].vote_percentage = 6154
        /\ req[c].resp.body.data.summary.margin_votes = 150

\* the group of a recommendation row in the order the specification gives:
\* competitive, then low turnout, then high density, then the rest
OrderGroup(row) ==
    IF row.winning_percentage # NULL /\ row.winning_percentage < 5500 THEN 1
    ELSE IF row.turnout < 5000 THEN 2
    ELSE IF row.total_electors > 1000 THEN 3
    ELSE 4

\* C15: getRecommendations returns every booth of the constituency once, the
\* competitive booths (winning percentage < 55) first, then the low-turnout
\* booths (turnout < 50), then the high-density booths (electors > 1000),
\* then the rest, and inside each group in ascending booth number.
C15_RecommendationOrder ==
    calc.fn = "recommendationsQuery" =>
        LET rows == calc.output
        IN  /\ Len(rows) = Cardinality(Booths)
            /\ \A b \in Booths : \E i \in 1 .. Len(rows) : rows[i].booth_id = b
            /\ \A i, j \in 1 .. Len(rows) :
                  i < j =>
                    \/ OrderGroup(rows[i]) < OrderGroup(rows[j])
                    \/ /\ OrderGroup(rows[i]) = OrderGroup(rows[j])
                       /\ rows[i].booth_number < rows[j].booth_number

\* a low-turnout booth comes before a high-density booth of lower number
C15_Witness ==
    /\ calc.fn = "recommendationsQuery"
    /\ \E i, j \in 1 .. Len(calc.output) :
          /\ i < j
          /\ OrderGroup(calc.output[i]) = 2
          /\ OrderGroup(calc.output[j]) = 3
          /\ calc.output[i].booth_number > calc.output[j].booth_number

\* the queries a request has issued
IssuedSet(r) == { r.issued[i] : i \in 1 .. Len(r.issued) }

\* C16: errors are terminal for a request. A request that has not ended has
\* sent nothing; a request ends with one response, a success or an error and
\* never both; the response once sent is not replaced; after a query has
\* failed no further query of the request is issued; and no query is issued a
\* second time.
C16_ErrorsAreTerminal ==
    /\ [](\A c \in Slots :
            /\ req[c].pc # "done" => req[c].resp = NoResponse /\ req[c].caught = Ok
            /\ req[c].pc = "done" =>
                  /\ req[c].resp.status # 0
                  /\ req[c].resp.body.success = (req[c].resp.status = 200)
                  /\ req[c].caught # Ok => req[c].resp.status >= 400
            /\ \A i, j \in 1 .. Len(req[c].issued) :
                  req[c].issued[i] = req[c].issued[j] => i = j)
    /\ [][\A c \in Slots :
            /\ (req[c].pc = "done" /\ req'[c] # Idle) => req'[c] = req[c]
            /\ (req[c].caught # Ok /\ req'[c] # Idle) => req'[c].issued = req[c].issued
            /\ (req[c].pc # "idle" /\ req'[c].issued # req[c].issued /\ req'[c] # Idle) =>
                  \E q \in {req'[c].pc} \ IssuedSet(req[c]) :
                      req'[c].issued = Append(req[c].issued, q)]_vars

\* a request that failed at its second query
C16_Witness ==
    \E c \in Slots :
        /\ Done(c)
        /\ req[c].caught \in ConnectivityErrors
        /\ Len(req[c].issued) = 2
        /\ req[c].resp.status = 500

\* C17: operations are independent and idempotent. Two requests with the same
\* operation and the same inputs, each answered by the store at every query,
\* get the same response over the unchanged dataset, whatever else is in
\* flight and however their steps interleave.
C17_ResponseIsFunctionOfRequest ==
    \A c1, c2 \in Slots :
        (/\ Done(c1) /\ Done(c2)
         /\ req[c1].op = req[c2].op
         /\ req[c1].id = req[c2].id
         /\ req[c1].arg = req[c2].arg
         /\ req[c1].caught \notin ConnectivityErrors
         /\ req[c2].caught \notin ConnectivityErrors) =>
            req[c1].resp = req[c2].resp

\* the request of slot c is in flight: it has arrived and is not answered
InFlight(c) == c \in clients /\ req[c].pc \notin {"idle", "done"}

\* C18: every request eventually ends with a response, also when the store
\* never answers or no pooled connection becomes free.
C18_EveryRequestEnds ==
    \A c \in Slots : InFlight(c) ~> Done(c)

\* C19: a request holds one pooled connection for its whole duration and
\* releases it when it ends: a request that has a connection keeps it until
\* it has responded, a request that has responded holds none, and the
\* connections in use never exceed the pool size.
C19_OneConnectionPerRequest ==
    /\ [](\A c \in Slots : ~InFlight(c) => c \notin pool.holders)
    /\ [](InUse(pool) <= pool.config.max)
    /\ [][\A c \in Slots :
            (c \in pool.holders /\ req'[c].pc \notin {"idle", "done"}) =>
                c \in pool'.holders]_vars

\* C20: the service only reads: no step of any request, successful or
\* failed, POST /compare included, changes a table of the dataset.
C20_ServiceOnlyReads == [][db' = db]_vars

\* a POST /compare that the store answered and that got its comparison
C20_Witness ==
    \E c \in Slots :
        /\ Succeeded(c)
        /\ req[c].op = "compare"
        /\ req[c].issued = <<"comparisonQuery">>
        /\ \E b \in Booths : db.booth_turnout[b] # NoTurnout

\* the rows of s that satisfy clusterLabel's size and turnout bands
LargeRows(s) == { i \in 1 .. Len(s) : s[i].total_electors > 800 }

HighRows(s) == { i \in 1 .. Len(s) : s[i].turnout_percentage >= 7000 }

LowRows(s) == { i \in 1 .. Len(s) : s[i].turnout_percentage < 5000 }

\* C21: the insight counters of getConstituencyBoothAnalysis use clusterLabel's
\* thresholds: high_turnout_booths counts the rows with turnout >= 70,
\* low_turnout_booths those with turnout < 50, large_booths those with more
\* than 800 electors; high and low are disjoint and no counter exceeds
\* total_booths_analyzed.
C21_InsightsUseClusterThresholds ==
    \A c \in Slots :
        (Succeeded(c) /\ req[c].op = "analysis") =>
            LET data == req[c].resp.body.data
                rows == data.booths
                ins == data.insights
            IN  /\ ins.high_turnout_booths = Cardinality(HighRows(rows))
                /\ ins.low_turnout_booths = Cardinality(LowRows(rows))
                /\ ins.large_booths = Cardinality(LargeRows(rows))
                /\ ins.high_turnout_booths + ins.low_turnout_booths
                       <= ins.total_booths_analyzed
                /\ ins.large_booths <= ins.total_booths_analyzed

\* the result rows of constituency ac whose party name is partyName
PartyRows(d, ac, partyName) ==
    { <<b, c>> \in BoothsOf(d, ac) \X Candidates :
        d.booth_results[b][c] # NULL /\ PartyOf(c) = partyName }

\* C22: getPartyPerformance selects exactly the result rows of the
\* constituency whose party name equals partyName; is_winner is true exactly
\* when the row's votes are the booth's maximum; booths_won counts the winner
\* rows and is at most booths_contested; total_votes is the sum of party_votes;
\* and without a matching row the four totals are 0.
C22_PartyPerformance ==
    \A c \in Slots :
        (Succeeded(c) /\ req[c].op = "party") =>
            LET data == req[c].resp.body.data
                rows == data.performance
                ac == PgInteger(req[c].id).val
                expected == PartyRows(db, ac, req[c].arg)
                won == { i \in 1 .. Len(rows) : rows[i].is_winner }
            IN  /\ Len(rows) = Cardinality(expected)
                /\ \A p \in expected :
                      \E i \in 1 .. Len(rows) :
                          rows[i].booth_id = p[1] /\ rows[i].candidate = p[2]
                /\ \A i \in 1 .. Len(rows) :
                      /\ rows[i].party_votes = db.booth_results[rows[i].booth_id][rows[i].candidate]
                      /\ rows[i].is_winner <=>
                            (rows[i].party_votes = MaxVotes(db, rows[i].booth_id))
                /\ data.booths_contested = Len(rows)
                /\ data.booths_won = Cardinality(won)
                /\ data.booths_won <= data.booths_contested
                /\ data.total_votes =
                      SumOver([i \in 1 .. Len(rows) |-> rows[i].party_votes], 1 .. Len(rows))
                /\ expected = {} =>
                      /\ data.booths_contested = 0
                      /\ data.booths_won = 0
                      /\ data.total_votes = 0
                      /\ data.avg_vote_share = Num(0)

\* the election the results operation is asked for: the current one without a
\* year, else the one of that year
AskedElections(year) ==
    IF year = <<>> THEN {electionId}
    ELSE { e.election_id : e \in { x \in Elections : x.election_year = PgInteger(year).val } }

\* C23: without a year the election-results operation reads the current
\* election (election_id 1, the one every other operation reads), and a
\* supplied year selects the election of that year: the rows are the
\* candidates' totals in that election.
C23_ResultsOfAskedElection ==
    \A c \in Slots :
        (Succeeded(c) /\ req[c].op = "results") =>
            LET rows == req[c].resp.body.data
                ac == PgInteger(req[c].id).val
            IN  \A eid \in AskedElections(req[c].arg) :
                    LET R == ResultsIn(db, eid)
                        Cands == { x \in Candidates :
                                     \E b \in BoothsOf(db, ac) : R[b][x] # NULL }
                    IN  /\ Len(rows) = Cardinality(Cands)
                        /\ \A x \in Cands :
                              \E i \in 1 .. Len(rows) :
                                  /\ rows[i].party_name = PartyOf(x)
                                  /\ rows[i].votes =
                                        SumOver([b \in BoothsOf(db, ac) |->
                                                    COALESCE(R[b][x], 0)], BoothsOf(db, ac))

\* C24: every response carries the envelope {success, data?, error?}: a
\* successful response has success = true and a data field, and every
\* failure response (validation error, not found, unknown route, data-access
\* failure) has success = false and an error field.
C24_ResponseEnvelope ==
    \A c \in Slots :
        Done(c) =>
            LET body == req[c].resp.body
            IN  /\ "success" \in DOMAIN body
                /\ IF req[c].resp.status = 200
                   THEN body.success = TRUE /\ "data" \in DOMAIN body
                   ELSE body.success = FALSE /\ "error" \in DOMAIN body

\* C25: getBoothClusters partitions the booths of the constituency: the
\* booth_count of the clusters add up to the number of booths, total_booths
\* in the response is that number, total_clusters is the number of clusters
\* (at most 6, none empty), and the clusters come in non-increasing
\* booth_count.
C25_ClustersPartitionBooths ==
    \A c \in Slots :
        (Succeeded(c) /\ req[c].op = "clusters") =>
            LET data == req[c].resp.body.data
                rows == data.clusters
                n == Cardinality(BoothsOf(db, PgInteger(req[c].id).val))
            IN  /\ SumOver([i \in 1 .. Len(rows) |-> rows[i].booth_count],
                           1 .. Len(rows)) = n
                /\ IF rows = <<>> THEN data.total_booths = 0
                   ELSE data.total_booths = Decimal(n)
                /\ data.total_clusters = Len(rows)
                /\ data.total_clusters <= 6
                /\ \A i \in 1 .. Len(rows) : rows[i].booth_count > 0
                /\ \A i, j \in 1 .. Len(rows) :
                      i < j => rows[i].booth_count >= rows[j].booth_count

\* C26: getConstituencyBoothAnalysis returns exactly one row per booth of the
\* constituency, in ascending booth number, also for booths where candidates
\* tie for the maximum and for booths without result rows, and
\* insights.total_booths_analyzed is the number of booths of the constituency.
C26_OneRowPerBooth ==
    \A c \in Slots :
        (Succeeded(c) /\ req[c].op = "analysis") =>
            LET data == req[c].resp.body.data
                rows == data.booths
                B == BoothsOf(db, PgInteger(req[c].id).val)
            IN  /\ Len(rows) = Cardinality(B)
                /\ \A b \in B :
                      Cardinality({ i \in 1 .. Len(rows) : rows[i].booth_id = b }) = 1
                /\ \A i, j \in 1 .. Len(rows) :
                      i < j => rows[i].booth_number < rows[j].booth_number
                /\ data.insights.total_booths_analyzed = Cardinality(B)

\* C27: in party_dominance each booth is won by exactly one party: the
\* booths_won of the listed parties add up to the number of booths of the
\* constituency that have a result row, and never to more than its booths,
\* also when candidates tie for the maximum of a booth.
C27_EachBoothWonOnce ==
    \A c \in Slots :
        (Succeeded(c) /\ req[c].op = "analysis") =>
            LET dominance == req[c].resp.body.data.party_dominance
                B == BoothsOf(db, PgInteger(req[c].id).val)
                won == SumOver([p \in dominance |-> p.booths_won], dominance)
            IN  /\ won = Cardinality({ b \in B : Contesting(db, b) # {} })
                /\ won <= Cardinality(B)

\* C28: in getRecommendations the category of a booth agrees with the group it
\* is sorted into: a booth of the low-turnout group is labelled
\* Low_Turnout_Opportunity, a booth of the high-density group
\* High_Density_Strategic, and summary.low_turnout_opportunities is the
\* number of booths of the low-turnout group.
C28_CategoryAgreesWithGroup ==
    \A c \in Slots :
        (Succeeded(c) /\ req[c].op = "recommendations") =>
            LET data == req[c].resp.body.data
                rows == data.recommendations
            IN  /\ \A i \in 1 .. Len(rows) :
                      /\ OrderGroup(rows[i]) = 2 =>
                            rows[i].recommendation_category = "Low_Turnout_Opportunity"
                      /\ OrderGroup(rows[i]) = 3 =>
                            rows[i].recommendation_category = "High_Density_Strategic"
                /\ data.summary.low_turnout_opportunities =
                      Cardinality({ i \in 1 .. Len(rows) : OrderGroup(rows[i]) = 2 })

\* the totals of the candidates of constituency ac, and the two highest
HighestTotal(d, ac, S) ==
    LET c == CHOOSE x \in S : \A y \in S : StatsVotes(d, ac, {x}) >= StatsVotes(d, ac, {y})
    IN  c

\* C29: the statistics report the margin between two distinct candidates: the
\* winner's total minus the second-highest total of a candidate, never
\* negative, also when candidates of different parties share a name, and 0
\* when fewer than two candidates contested.
C29_MarginBetweenTopTwo ==
    \A c \in Slots :
        (Succeeded(c) /\ req[c].op = "stats") =>
            LET data == req[c].resp.body.data
                ac == PgInteger(req[c].id).val
                C == StatsContestants(db, ac)
                first == HighestTotal(db, ac, C)
                second == HighestTotal(db, ac, C \ {first})
            IN  /\ data.margin_2022 >= 0
                /\ IF Cardinality(C) < 2 THEN data.margin_2022 = 0
                   ELSE data.margin_2022 =
                            StatsVotes(db, ac, {first}) - StatsVotes(db, ac, {second})

\* C30: graceful shutdown is ordered and terminates: the pool is ended only
\* after the HTTP server has closed, and only once, also when a second signal
\* arrives during shutdown; the process exits with a failure code only when
\* the forced-shutdown timer ends it, so a shutdown whose two steps succeed
\* exits with 0; and after a signal the process always exits.
C30_GracefulShutdown ==
    /\ [](proc.ends > 0 => proc.server = "closed")
    /\ [](proc.ends <= 1)
    /\ []((proc.exited /\ proc.exitCode # 0) => proc.forced)
    /\ (proc.signals > 0 ~> proc.exited)

====
